---- MODULE Spec2Model ----
(***************************************************************************)
(* Verification model of the agent_v2 runtime of med_deepresearch:         *)
(*   - the Session store (src/src/agent_v2/session.py), one JSON file per  *)
(*     session id shared by several Session objects / OS processes;        *)
(*   - the Agent run loop (src/src/agent_v2/agent.py);                     *)
(*   - the tool registry (src/src/agent_v2/tools/registry.py).             *)
(***************************************************************************)
EXTENDS Integers, Sequences, FiniteSets, TLC

\* ------------------------------------------------------------------ bounds
\* Session objects (one per process) holding the same session id.
NObj == 2
\* Timestamps issued by datetime.now(): bounds the number of appended entries.
MaxClock == 2

\* ------------------------------------------------------- program constants
\* session.py:123  recent = self.store[-10:]
DigestNotes == 10
\* session.py:129  self.history[-5:]
DigestRuns == 5

VARIABLES
    file,       \* the session file <session_dir>/<session_id>.json
    mem,        \* mem[o]: in-memory fields of Session object o
    pc,         \* pc[o]: position of object o inside _load / save
    lock,       \* lock[o]: flock held by o on the file: "none", "sh", "ex"
    buf,        \* buf[o]: json text written by json.dump, not yet flushed
    now,        \* logical clock behind datetime.now()
    persisted,  \* history variable: timestamps of entries seen in a complete file
    readSeen,   \* history variable: what the last json.load of o found
    saved,      \* history variable: the state written by the last completed save
    fresh,      \* history variable: fresh[o] iff o loaded the file after that save
    rpc,                \* position of Agent.run
    max_turns,          \* self.max_turns
    turn,               \* turn counter of the loop
    pending,            \* tool calls of message.tool_calls not yet handled
    turn_record,        \* the record of the turn in progress
    final_response,     \* text returned by run
    final_result_data,  \* payload of the Final-Result block, or None
    trajectory,         \* the trajectory dict: turns, termination_reason, saved log
    llm_calls,          \* history variable: chat.completions.create calls made
    scriptNotes,        \* history variable: timestamps of notes appended by tool scripts
    hist0,              \* history variable: length of the persisted history at run start
    seen,               \* history variable: Final-Result blocks found in tool results
    first_plain,        \* history variable: the first response, when it had no tool calls
    plain_turns,        \* history variable: turns with tool calls and no final result
    synth,              \* history variable: synthesis calls and their outcome
    requests,           \* history variable: the chat.completions.create requests sent
    llm_failed,         \* history variable: the loop's model call that raised
    messages,           \* the messages list of run
    calls,              \* message.tool_calls of the response in hand
    executed,           \* history variable: ids of the tool calls executed this turn
    image_loader,       \* self.image_loader: "none" or "loaded"
    supports_vision,    \* self.supports_vision
    injected,           \* history variable: the _inject_case_images call just made
    followed,           \* model variable: TRUE when the messages list of the run is followed
    agent,              \* the Agent object: its skills, system prompt and tools
    registry,           \* _TOOL_REGISTRY, in insertion order
    dispatch,           \* history variable: the execute_tool call just made and its result
    listing,            \* history variable: the get_tool_schemas call just made and its result
    parsed,             \* history variable: the parse_final_result call just made and its result
    argv,               \* spawn_subagents.py: the task arguments, sys.argv[1:]
    tasks,              \* spawner: the tasks it took
    spc,                \* spawner: position of main
    sub,                \* spawner: sub[i], state of the future of task id i
    results,            \* spawner: the results list, in the order they were gathered
    parent_notes,       \* spawner: notes appended to the main session
    summary,            \* spawner: the summary printed
    peak,               \* history variable: most sub-agents running at one time
    gathered            \* history variable: task ids in the order their futures were gathered

sessVars == <<file, mem, pc, lock, buf, now, persisted, readSeen, saved, fresh>>
callVars == <<requests, llm_failed>>
msgVars == <<messages, calls, executed, image_loader, supports_vision, injected, followed,
             agent>>
runVars == <<rpc, max_turns, turn, pending, turn_record, final_response,
             final_result_data, trajectory, llm_calls, scriptNotes, hist0, seen,
             first_plain, plain_turns, synth, callVars, msgVars>>
toolVars == <<registry, dispatch, listing, parsed>>
spawnVars == <<argv, tasks, spc, sub, results, parent_notes, summary, peak, gathered>>
vars == <<sessVars, runVars, toolVars, spawnVars>>

Objs == 1..NObj

\* --------------------------------------------------------- python values
\* A python leaf value: its type k, and its content (text s, number n).
PyStr(x, i) == [k |-> "str", s |-> x, n |-> i]
PyInt(i) == [k |-> "int", s |-> "", n |-> i]
PyNone == [k |-> "NoneType", s |-> "", n |-> 0]
PyDict(x) == [k |-> "dict", s |-> x, n |-> 0]
PyList(x) == [k |-> "list", s |-> x, n |-> 0]

\* datetime.now().isoformat() at clock value t
Timestamp(t) == PyStr("ts", t)

\* Note payloads the tool scripts append (research_tools_bm25.py cmd_plan, cmd_query)
Payloads ==
    { [type |-> PyStr("plan", 0), arg |-> PyNone],
      [type |-> PyStr("query", 0), arg |-> PyInt(5)] }

\* Run summaries handed to add_run (agent.py:612-620), before the timestamp is set
Summaries ==
    { [run_id |-> PyStr("run", 1), output_summary |-> PyStr("json", 0),
       output |-> PyStr("json", 0), final_result_data |-> PyDict("A"), turns |-> PyInt(2)] }

Contexts == { PyStr("", 0), PyStr("visit", 0) }

\* --------------------------------------------------------- json encoding
\* json.dump of a leaf: str -> string, int -> number, None -> null, dict -> object
json_encode(v) ==
    CASE v.k = "str" -> [j |-> "string", s |-> v.s, n |-> v.n]
      [] v.k = "int" -> [j |-> "number", s |-> "", n |-> v.n]
      [] v.k = "NoneType" -> [j |-> "null", s |-> "", n |-> 0]
      [] v.k = "dict" -> [j |-> "object", s |-> v.s, n |-> 0]
      [] v.k = "list" -> [j |-> "array", s |-> v.s, n |-> 0]

\* json.load of a leaf
json_decode(w) ==
    CASE w.j = "string" -> [k |-> "str", s |-> w.s, n |-> w.n]
      [] w.j = "number" -> [k |-> "int", s |-> "", n |-> w.n]
      [] w.j = "null" -> [k |-> "NoneType", s |-> "", n |-> 0]
      [] w.j = "object" -> [k |-> "dict", s |-> w.s, n |-> 0]
      [] w.j = "array" -> [k |-> "list", s |-> w.s, n |-> 0]

encode_note(e) ==
    [timestamp |-> json_encode(e.timestamp),
     data |-> [type |-> json_encode(e.data.type), arg |-> json_encode(e.data.arg)]]

decode_note(e) ==
    [timestamp |-> json_decode(e.timestamp),
     data |-> [type |-> json_decode(e.data.type), arg |-> json_decode(e.data.arg)]]

encode_run(r) ==
    [timestamp |-> json_encode(r.timestamp), run_id |-> json_encode(r.run_id),
     output_summary |-> json_encode(r.output_summary), output |-> json_encode(r.output),
     final_result_data |-> json_encode(r.final_result_data), turns |-> json_encode(r.turns)]

decode_run(r) ==
    [timestamp |-> json_decode(r.timestamp), run_id |-> json_decode(r.run_id),
     output_summary |-> json_decode(r.output_summary), output |-> json_decode(r.output),
     final_result_data |-> json_decode(r.final_result_data), turns |-> json_decode(r.turns)]

\* Session.save, lines 79-86 and 92: the json document of the in-memory fields
json_dump(m) ==
    [context |-> json_encode(m.context),
     store |-> [i \in 1..Len(m.store) |-> encode_note(m.store[i])],
     history |-> [i \in 1..Len(m.history) |-> encode_run(m.history[i])]]

\* A load that assigns context and store and leaves history as constructed
json_load_without_history(doc) ==
    [context |-> json_decode(doc.context),
     store |-> [i \in 1..Len(doc.store) |-> decode_note(doc.store[i])],
     history |-> <<>>]

\* Session._load, lines 65-68: json.load and the assignment of the fields
json_load(doc) ==
    [context |-> json_decode(doc.context),
     store |-> [i \in 1..Len(doc.store) |-> decode_note(doc.store[i])],
     history |-> [i \in 1..Len(doc.history) |-> decode_run(doc.history[i])]]

\* ------------------------------------------------------------- the file
NoDoc == [context |-> json_encode(PyStr("", 0)), store |-> <<>>, history |-> <<>>]

\* Length of the json text, counted in entries
DocSize(doc) == Len(doc.store) + Len(doc.history)

Absent == [st |-> "absent", doc |-> NoDoc, size |-> 0]

\* open(session_file, "w"): creates the file or truncates it to length 0
Truncated == [st |-> "empty", doc |-> NoDoc, size |-> 0]

\* close() of the "w" handle: the buffered text is written at offset 0 of
\* whatever the file holds by then; a longer content left by another writer
\* keeps its tail, and the result is not a json document.
Flushed(f, doc) ==
    IF f.size > DocSize(doc)
    THEN [st |-> "mixed", doc |-> NoDoc, size |-> f.size]
    ELSE [st |-> "ok", doc |-> doc, size |-> DocSize(doc)]

\* Session.__init__, lines 39-41
NewSession(ctx) == [context |-> ctx, store |-> <<>>, history |-> <<>>]

\* A reload that keeps the fields the object already has
Loaded_stale(m, f) == m

\* Session._load as a whole: the fields after reading file f
Loaded(m, f) == IF f.st = "ok" THEN json_load(f.doc) ELSE m

\* Session.append_store, lines 101-105
WithNote(m, t, d) ==
    [m EXCEPT !.store = Append(@, [timestamp |-> Timestamp(t), data |-> d])]

\* Session.add_run, lines 110-111
WithRun(m, t, r) ==
    [m EXCEPT !.history = Append(@,
        [timestamp |-> Timestamp(t), run_id |-> r.run_id,
         output_summary |-> r.output_summary, output |-> r.output,
         final_result_data |-> r.final_result_data, turns |-> r.turns])]

\* Timestamps of the entries of a json document
DocStamps(doc) ==
    { doc.store[i].timestamp.n : i \in 1..Len(doc.store) } \cup
    { doc.history[i].timestamp.n : i \in 1..Len(doc.history) }

LastN(s, k) == IF Len(s) <= k THEN s ELSE SubSeq(s, Len(s) - k + 1, Len(s))

\* Session.get_context_prompt: the digest, "" (here: shown = FALSE) when empty
get_context_prompt(m) ==
    [shown |-> (m.context.s # "" \/ m.store # <<>> \/ m.history # <<>>),
     context |-> m.context,
     notes |-> LastN(m.store, DigestNotes),
     runs |-> [i \in 1..Len(LastN(m.history, DigestRuns)) |->
                 [timestamp |-> LastN(m.history, DigestRuns)[i].timestamp,
                  summary |-> LastN(m.history, DigestRuns)[i].output_summary]]]

\* ------------------------------------------------------------------ texts
\* A text is a sequence of tokens; "" is <<>>.
START == "<<<FINAL_RESULT>>>"
END == "<<<END_FINAL_RESULT>>>"
WS == " "
\* Tokens that json.loads accepts: two objects, null, an array
JsonObjects == {"{A}", "{}"}
JsonTokens == JsonObjects \cup {"null", "[1]"}

Min(S) == CHOOSE x \in S : \A y \in S : x <= y

RECURSIVE lstrip(_)
lstrip(t) == IF t # <<>> /\ Head(t) = WS THEN lstrip(Tail(t)) ELSE t

RECURSIVE rstrip(_)
rstrip(t) ==
    IF t # <<>> /\ t[Len(t)] = WS THEN rstrip(SubSeq(t, 1, Len(t) - 1)) ELSE t

\* str.strip()
strip(t) == rstrip(lstrip(t))

\* json.loads of one token
json_loads(tok) ==
    CASE tok \in JsonObjects -> [k |-> "dict", v |-> <<tok>>]
      [] tok = "[1]" -> [k |-> "list", v |-> <<tok>>]
      [] tok = "null" -> [k |-> "NoneType", v |-> <<>>]

None == [k |-> "NoneType", v |-> <<>>]

\* Python truth value of a parsed payload
Truthy(d) == d.k = "raw" \/ (d.k \in {"dict", "list"} /\ d.v # <<"{}">>)

\* json.dumps of a parsed payload
json_dumps(d) ==
    CASE d.k = "raw" -> <<"{\"raw\": \"">> \o d.v \o <<"\"}">>
      [] d.k = "NoneType" -> <<"null">>
      [] OTHER -> d.v

\* The payload as it is stored in a run summary
AsLeaf(d) ==
    CASE d.k = "NoneType" -> PyNone
      [] d.k = "raw" -> [k |-> "dict", s |-> "raw", n |-> Len(d.v)]
      [] d.k = "list" -> PyList(d.v[1])
      [] OTHER -> PyDict(d.v[1])

\* Positions of a start marker that some end marker follows
MatchStarts(t) ==
    { i \in 1..Len(t) : t[i] = START /\ \E j \in (i + 1)..Len(t) : t[j] = END }

\* A greedy group: the match runs to the last end marker
MatchGroup_greedy(t) ==
    LET i == Min(MatchStarts(t))
        j == CHOOSE x \in (i + 1)..Len(t) :
                t[x] = END /\ \A y \in (x + 1)..Len(t) : t[y] # END
    IN strip(SubSeq(t, i + 1, j - 1))

\* re.search(r'<<<FINAL_RESULT>>>\s*(.*?)\s*<<<END_FINAL_RESULT>>>', DOTALL):
\* group(1) of the leftmost match
MatchGroup(t) ==
    LET i == Min(MatchStarts(t))
        j == Min({ x \in (i + 1)..Len(t) : t[x] = END })
    IN strip(SubSeq(t, i + 1, j - 1))

\* A parse that never tries json.loads and always wraps the text as raw
parse_final_result_raw(t) ==
    IF MatchStarts(t) = {}
    THEN [is_final |-> FALSE, data |-> None]
    ELSE [is_final |-> TRUE, data |-> [k |-> "raw", v |-> MatchGroup(t)]]

\* parse_final_result(output)
parse_final_result(t) ==
    IF MatchStarts(t) = {}
    THEN [is_final |-> FALSE, data |-> None]
    ELSE IF Len(MatchGroup(t)) = 1 /\ MatchGroup(t)[1] \in JsonTokens
         THEN [is_final |-> TRUE, data |-> json_loads(MatchGroup(t)[1])]
         ELSE [is_final |-> TRUE, data |-> [k |-> "raw", v |-> MatchGroup(t)]]

\* What a shell command prints
Stdouts ==
    { <<>>,
      <<"text">>,
      <<START, WS, "{A}", WS, END>>,
      <<"text", START, "{}", END, "text">>,
      <<START, "null", END>>,
      <<START, "text", END>>,
      <<START, "text", START, "{A}", END>> }

Stderrs == { <<>>, <<"text">> }

\* Outcomes of subprocess.run in bash_with_session
BashOutcomes ==
    [kind : {"exit0"}, stdout : Stdouts, stderr : {<<>>}] \cup
    [kind : {"exitN"}, stdout : Stdouts, stderr : Stderrs] \cup
    [kind : {"timeout", "oserror"}, stdout : {<<>>}, stderr : {<<>>}]

\* bash_with_session(command, session_id, session_dir, timeout): the string returned
bash_with_session(out) ==
    CASE out.kind = "exit0" ->
            IF strip(out.stdout) # <<>> THEN strip(out.stdout)
            ELSE <<"Command executed successfully (no output)">>
      [] out.kind = "exitN" ->
            <<"Error (exit N): ">> \o
                (IF strip(out.stderr) # <<>> THEN strip(out.stderr) ELSE strip(out.stdout))
      [] out.kind = "timeout" -> <<"Error: Command timed out after 60 seconds">>
      [] out.kind = "oserror" -> <<"Error: ", "message">>

\* ----------------------------------------------------------- tool registry
\* Names a model may put in a tool call
ToolNames == {"bash", "get_skill", "get_skill_reference", "think", "web_search", "nope"}

\* Implementations a name can be bound to
Impls == {"builtin", "other"}

\* Outcomes of calling an implementation with **args
ImplOutcomes ==
    [kind : {"value", "none", "raise"}, stdout : {<<"text">>, <<START, "{A}", END>>},
     stderr : {<<>>}]

\* _TOOL_REGISTRY after the imports of tools/implementations.py
ImportedRegistry ==
    << [name |-> "web_search", impl |-> "builtin"],
       [name |-> "bash", impl |-> "builtin"],
       [name |-> "think", impl |-> "builtin"] >>

Registered(reg) == { reg[i].name : i \in 1..Len(reg) }

\* A dispatch without the try block: what the implementation raises leaves
\* the function
execute_tool_unguarded(reg, name, args, out) ==
    IF name \notin Registered(reg)
    THEN [result |-> <<"Error: Tool '", name, "' not found">>, ran |-> FALSE,
          raised |-> FALSE, registry |-> reg]
    ELSE CASE args = "nonobject" ->
                [result |-> <<>>, ran |-> FALSE, raised |-> TRUE, registry |-> reg]
           [] out.kind = "value" ->
                [result |-> out.stdout, ran |-> TRUE, raised |-> FALSE, registry |-> reg]
           [] out.kind = "none" ->
                [result |-> <<"Success">>, ran |-> TRUE, raised |-> FALSE, registry |-> reg]
           [] out.kind = "raise" ->
                [result |-> <<>>, ran |-> TRUE, raised |-> TRUE, registry |-> reg]

\* execute_tool(name, args): the string returned, whether the bound
\* implementation was entered, whether an exception left the function, and
\* the registry afterwards. args is "object", "empty" or "nonobject"; a
\* non-mapping after ** raises TypeError inside the try block.
execute_tool(reg, name, args, out) ==
    IF name \notin Registered(reg)
    THEN [result |-> <<"Error: Tool '", name, "' not found">>, ran |-> FALSE,
          raised |-> FALSE, registry |-> reg]
    ELSE IF args = "nonobject"
         THEN [result |-> <<"Error: ", "argument after ** must be a mapping">>,
               ran |-> FALSE, raised |-> FALSE, registry |-> reg]
         ELSE CASE out.kind = "value" ->
                     [result |-> out.stdout, ran |-> TRUE, raised |-> FALSE,
                      registry |-> reg]
                [] out.kind = "none" ->
                     [result |-> <<"Success">>, ran |-> TRUE, raised |-> FALSE,
                      registry |-> reg]
                [] out.kind = "raise" ->
                     [result |-> <<"Error: ", "message">>, ran |-> TRUE, raised |-> FALSE,
                      registry |-> reg]

\* A variant that answers in registration order, each requested name once
get_tool_schemas_catalogue(reg, req) ==
    IF req.none THEN reg
    ELSE SelectSeq(reg, LAMBDA e : \E i \in 1..Len(req.names) : req.names[i] = e.name)

\* The list comprehension of line 108 over the requested names
RECURSIVE requested_schemas(_, _)
requested_schemas(reg, names) ==
    IF names = <<>> THEN <<>>
    ELSE (IF Head(names) \in Registered(reg)
          THEN <<CHOOSE e \in { reg[i] : i \in 1..Len(reg) } : e.name = Head(names)>>
          ELSE <<>>) \o requested_schemas(reg, Tail(names))

\* get_tool_schemas(tool_names): a schema is identified by its registry entry
get_tool_schemas(reg, req) ==
    IF req.none THEN reg ELSE requested_schemas(reg, req.names)

NoListing == [called |-> FALSE, req |-> [none |-> TRUE, names |-> <<>>],
              result |-> <<>>, catalogue |-> <<>>]

\* No parse_final_result call has been made
NoParse == [called |-> FALSE, text |-> <<>>, result |-> [is_final |-> FALSE, data |-> None]]

\* ------------------------------------------------------------------ skills
\* Most skill names an agent is configured with
MaxSkills == 3

\* Names of skills=[...]: two skill folders with a SKILL.md, one without
SkillNames == {"a", "b", "nope"}

\* SkillLoader.load_skill(name) for a folder with a SKILL.md
\* (skill_loader.py:61-95): skill a has a reference file
Skill(n) ==
    [name |-> n,
     summary |-> IF n = "a" THEN "/a: first skill" ELSE "/b: second skill",
     content |-> IF n = "a" THEN "content of a" ELSE "content of b",
     references |-> IF n = "a" THEN <<"ref.md">> ELSE <<>>]

\* Agent._load_skills: the skills that load, in the order of the names
load_skills(names) ==
    LET found == SelectSeq(names, LAMBDA n : n # "nope")
    IN [i \in 1..Len(found) |-> Skill(found[i])]

\* generate_single_skill_prompt(skill), skill_loader.py:206-221
generate_single_skill_prompt(skill) ==
    <<"## Skill:", skill.name, skill.content>> \o
    (IF skill.references # <<>> THEN <<"### Available References">> \o skill.references
     ELSE <<>>)

\* generate_skill_routing_prompt(skills), skill_loader.py:174-203
generate_skill_routing_prompt(skills) ==
    <<"## Available Skills">> \o [i \in 1..Len(skills) |-> skills[i].summary] \o
    <<"### How to Use Skills", "### Tools for Skill Management">>

\* A choice that routes as soon as one skill is loaded
skill_prompt_routed(skills) ==
    IF Len(skills) >= 1
    THEN [prompt |-> generate_skill_routing_prompt(skills), routing |-> TRUE]
    ELSE [prompt |-> <<>>, routing |-> FALSE]

\* _build_system_prompt, agent.py:224-231: skill_prompt and has_skill_routing
skill_prompt(skills) ==
    IF Len(skills) = 1
    THEN [prompt |-> generate_single_skill_prompt(skills[1]), routing |-> FALSE]
    ELSE IF Len(skills) > 1
         THEN [prompt |-> generate_skill_routing_prompt(skills), routing |-> TRUE]
         ELSE [prompt |-> <<>>, routing |-> FALSE]

\* A part of the system prompt: its kind, its text, the session digest it shows
PromptPart(kind, text, digest) == [part |-> kind, text |-> text, digest |-> digest]

NoDigest == get_context_prompt(NewSession(PyStr("", 0)))

\* build_system_prompt(skill_prompt, session_prompt, has_skill_routing,
\* custom_instructions), prompts.py:60-92: the parts that are joined
build_system_prompt(sp, session_prompt, routing, ci) ==
    <<PromptPart("base", <<>>, NoDigest)>> \o
    (IF routing THEN <<PromptPart("routing_tools", <<>>, NoDigest)>> ELSE <<>>) \o
    (IF sp # <<>> THEN <<PromptPart("skill", sp, NoDigest)>> ELSE <<>>) \o
    (IF ci # "" THEN <<PromptPart("custom_instructions", <<ci>>, NoDigest)>> ELSE <<>>) \o
    (IF session_prompt.shown THEN <<PromptPart("session", <<>>, session_prompt)>> ELSE <<>>)

\* Agent._build_system_prompt on agent a whose Session has the fields m
BuildSystemPrompt(a, m) ==
    [a EXCEPT
        !.has_skill_routing = skill_prompt(a.loaded_skills).routing,
        !.system_prompt =
            build_system_prompt(skill_prompt(a.loaded_skills).prompt, get_context_prompt(m),
                                skill_prompt(a.loaded_skills).routing,
                                a.custom_instructions) \o
            (IF a.custom_system_prompt # ""
             THEN <<PromptPart("custom_system_prompt", <<a.custom_system_prompt>>, NoDigest)>>
             ELSE <<>>)]

\* SKILL_ROUTING_TOOLS, prompts.py:96-131
SKILL_ROUTING_TOOLS ==
    << [name |-> "get_skill", impl |-> "agent"],
       [name |-> "get_skill_reference", impl |-> "agent"] >>

\* Agent._build_tools, agent.py:245-257
BuildTools(reg, routing) ==
    get_tool_schemas(reg, [none |-> FALSE, names |-> <<"bash">>]) \o
    (IF routing THEN SKILL_ROUTING_TOOLS ELSE <<>>)

\* No Agent object
NoAgent ==
    [skill_names |-> <<>>, loaded_skills |-> <<>>, custom_instructions |-> "",
     custom_system_prompt |-> "", has_skill_routing |-> FALSE, system_prompt |-> <<>>,
     tools |-> <<>>, built |-> FALSE]

\* Agent.__init__, agent.py:117-199, as far as skills, prompt and tools go
AgentInit(names, ci, csp, m, reg) ==
    LET a == BuildSystemPrompt(
                [NoAgent EXCEPT !.skill_names = names, !.loaded_skills = load_skills(names),
                                !.custom_instructions = ci, !.custom_system_prompt = csp,
                                !.built = TRUE], m)
    IN [a EXCEPT !.tools = BuildTools(reg, a.has_skill_routing)]

\* ------------------------------------------------------------- spawner
\* sys.argv[1:6] (spawn_subagents.py:122): at most this many tasks are taken
MaxTasks == 5

\* Task arguments a command line may carry
MaxArgs == 6

\* No spawner has been started
NoSummary == [status |-> "none", num_agents |-> 0, successful |-> 0, failed |-> 0,
              results |-> <<>>]

SpawnIdle ==
    /\ argv = <<>>
    /\ tasks = <<>>
    /\ spc = "none"
    /\ sub = <<>>
    /\ results = <<>>
    /\ parent_notes = <<>>
    /\ summary = NoSummary
    /\ peak = 0
    /\ gathered = <<>>

\* ------------------------------------------------- Session object steps
Idle(o) == pc[o] = "idle"

\* Session(session_id, session_dir, context): fresh fields, then _load
Construct(o, ctx) ==
    /\ pc[o] \in {"none", "idle"}
    /\ mem' = [mem EXCEPT ![o] = NewSession(ctx)]
    /\ pc' = [pc EXCEPT ![o] = "load_exists"]
    /\ fresh' = [fresh EXCEPT ![o] = FALSE]
    /\ UNCHANGED <<runVars, toolVars, spawnVars>>
    /\ UNCHANGED <<file, lock, buf, now, persisted, readSeen, saved>>

\* session._load() called again on a live object (agent.py:315, 319, 610)
Reload(o) ==
    /\ Idle(o)
    /\ pc' = [pc EXCEPT ![o] = "load_exists"]
    /\ fresh' = [fresh EXCEPT ![o] = FALSE]
    /\ UNCHANGED <<runVars, toolVars, spawnVars>>
    /\ UNCHANGED <<file, mem, lock, buf, now, persisted, readSeen, saved>>

\* _load, lines 58-62: return when the file is missing, else open it for
\* reading; the IOError of an open that is refused is caught at line 73
LoadExists(o) ==
    /\ pc[o] = "load_exists"
    /\ pc' = [pc EXCEPT ![o] = IF file.st \in {"absent", "denied"} THEN "idle"
                               ELSE "load_lock"]
    /\ UNCHANGED <<runVars, toolVars, spawnVars>>
    /\ UNCHANGED <<file, mem, lock, buf, now, persisted, readSeen, saved, fresh>>

\* _load, line 63: flock(LOCK_SH) waits while another handle holds LOCK_EX
LoadLock(o) ==
    /\ pc[o] = "load_lock"
    /\ \A q \in Objs \ {o} : lock[q] # "ex"
    /\ lock' = [lock EXCEPT ![o] = "sh"]
    /\ pc' = [pc EXCEPT ![o] = "load_read"]
    /\ UNCHANGED <<runVars, toolVars, spawnVars>>
    /\ UNCHANGED <<file, mem, buf, now, persisted, readSeen, saved, fresh>>

\* _load, lines 65-74: json.load, assign the fields, unlock; a JSONDecodeError
\* leaves the fields as they were; when the text is JSON but no object,
\* data.get raises AttributeError, which line 73 does not catch
LoadRead(o) ==
    /\ pc[o] = "load_read"
    /\ mem' = [mem EXCEPT ![o] = Loaded(mem[o], file)]
    /\ readSeen' = [readSeen EXCEPT ![o] = [st |-> file.st, had |-> persisted # {}]]
    /\ fresh' = [fresh EXCEPT ![o] = saved.valid]
    /\ lock' = [lock EXCEPT ![o] = "none"]
    /\ pc' = [pc EXCEPT ![o] = IF file.st = "nonobject" THEN "raised" ELSE "idle"]
    /\ UNCHANGED <<runVars, toolVars, spawnVars>>
    /\ UNCHANGED <<file, buf, now, persisted, saved>>

\* append_store(data): append in memory, then save
append_store(o, d) ==
    /\ Idle(o)
    /\ now < MaxClock
    /\ now' = now + 1
    /\ mem' = [mem EXCEPT ![o] = WithNote(mem[o], now + 1, d)]
    /\ pc' = [pc EXCEPT ![o] = "save_open"]
    /\ fresh' = [fresh EXCEPT ![o] = FALSE]
    /\ UNCHANGED <<runVars, toolVars, spawnVars>>
    /\ UNCHANGED <<file, lock, buf, persisted, readSeen, saved>>

\* add_run(run_summary): append in memory, then save
add_run(o, r) ==
    /\ Idle(o)
    /\ now < MaxClock
    /\ now' = now + 1
    /\ mem' = [mem EXCEPT ![o] = WithRun(mem[o], now + 1, r)]
    /\ pc' = [pc EXCEPT ![o] = "save_open"]
    /\ fresh' = [fresh EXCEPT ![o] = FALSE]
    /\ UNCHANGED <<runVars, toolVars, spawnVars>>
    /\ UNCHANGED <<file, lock, buf, persisted, readSeen, saved>>

\* save, line 89: open(session_file, "w") truncates the file before any lock;
\* an open that is refused raises PermissionError out of save
SaveOpen(o) ==
    /\ pc[o] = "save_open"
    /\ file' = IF file.st = "denied" THEN file ELSE Truncated
    /\ pc' = [pc EXCEPT ![o] = IF file.st = "denied" THEN "raised" ELSE "save_lock"]
    /\ fresh' = [q \in Objs |-> FALSE]
    /\ saved' = [saved EXCEPT !.valid = FALSE]
    /\ UNCHANGED <<runVars, toolVars, spawnVars>>
    /\ UNCHANGED <<mem, lock, buf, now, persisted, readSeen>>

\* save, line 90: flock(LOCK_EX) waits while another handle holds any lock
SaveLock(o) ==
    /\ pc[o] = "save_lock"
    /\ \A q \in Objs \ {o} : lock[q] = "none"
    /\ lock' = [lock EXCEPT ![o] = "ex"]
    /\ pc' = [pc EXCEPT ![o] = "save_dump"]
    /\ UNCHANGED <<runVars, toolVars, spawnVars>>
    /\ UNCHANGED <<file, mem, buf, now, persisted, readSeen, saved, fresh>>

\* save, lines 92-94: json.dump into the handle's buffer, then flock(LOCK_UN)
SaveDump(o) ==
    /\ pc[o] = "save_dump"
    /\ buf' = [buf EXCEPT ![o] = json_dump(mem[o])]
    /\ lock' = [lock EXCEPT ![o] = "none"]
    /\ pc' = [pc EXCEPT ![o] = "save_close"]
    /\ UNCHANGED <<runVars, toolVars, spawnVars>>
    /\ UNCHANGED <<file, mem, now, persisted, readSeen, saved, fresh>>

\* save, end of the with block (line 89): close() flushes the buffer
SaveClose(o) ==
    /\ pc[o] = "save_close"
    /\ file' = Flushed(file, buf[o])
    /\ persisted' = IF file'.st = "ok" THEN persisted \cup DocStamps(file'.doc)
                    ELSE persisted
    /\ saved' = IF file'.st = "ok"
                THEN [valid |-> \A q \in Objs \ {o} : pc[q] \in {"none", "idle"},
                      by |-> o, m |-> mem[o]]
                ELSE saved
    /\ buf' = [buf EXCEPT ![o] = NoDoc]
    /\ pc' = [pc EXCEPT ![o] = "idle"]
    /\ UNCHANGED <<runVars, toolVars, spawnVars>>
    /\ UNCHANGED <<mem, lock, now, readSeen, fresh>>

SessionStep(o) ==
    \/ \E ctx \in Contexts : Construct(o, ctx)
    \/ Reload(o)
    \/ LoadExists(o)
    \/ LoadLock(o)
    \/ LoadRead(o)
    \/ \E d \in Payloads : append_store(o, d)
    \/ \E r \in Summaries : add_run(o, r)
    \/ SaveOpen(o)
    \/ SaveLock(o)
    \/ SaveDump(o)
    \/ SaveClose(o)

NoDispatch ==
    [name |-> "", args |-> "", out |-> [kind |-> "none", stdout |-> <<>>, stderr |-> <<>>],
     result |-> <<>>, ran |-> FALSE, raised |-> FALSE, known |-> FALSE, unchanged |-> TRUE]

NoTrajectory ==
    [turns |-> <<>>, termination_reason |-> "None", saved |-> FALSE, output |-> <<>>,
     final_result_data |-> None, total_turns |-> 0]

NothingSeen ==
    [any |-> FALSE, anyObject |-> <<>>, turn |-> 0, calls |-> 0,
     bash |-> FALSE, object |-> <<>>, bturn |-> 0, bcalls |-> 0]

NotFailed == [set |-> FALSE, turn |-> 0]

NoInjection == [called |-> FALSE, case |-> 0, result |-> FALSE, before |-> <<>>]

\* No conversation has started, no image loader is configured
MsgIdle ==
    /\ messages = <<>>
    /\ calls = <<>>
    /\ executed = <<>>
    /\ image_loader = "none"
    /\ supports_vision = FALSE
    /\ injected = NoInjection
    /\ followed = FALSE

\* The loop variables of run before a run
LoopIdle ==
    /\ rpc = "ready"
    /\ max_turns = 1
    /\ turn = 0
    /\ pending = 0
    /\ turn_record = [turn |-> 0, tool_calls |-> 0, final |-> FALSE, synthesis |-> FALSE]
    /\ final_response = <<>>
    /\ final_result_data = None
    /\ trajectory = NoTrajectory
    /\ llm_calls = 0
    /\ scriptNotes = {}
    /\ hist0 = 0
    /\ seen = NothingSeen
    /\ first_plain = [set |-> FALSE, content |-> <<>>]
    /\ plain_turns = 0
    /\ synth = [calls |-> 0, ok |-> FALSE, content |-> <<>>]
    /\ requests = <<>>
    /\ llm_failed = NotFailed

\* No Agent is constructed, no run has started
RunIdle == LoopIdle /\ MsgIdle /\ agent = NoAgent

\* No Session object exists, the session file is absent
SessionIdle ==
    /\ file = Absent
    /\ mem = [o \in Objs |-> NewSession(PyStr("", 0))]
    /\ pc = [o \in Objs |-> "none"]
    /\ lock = [o \in Objs |-> "none"]
    /\ buf = [o \in Objs |-> NoDoc]
    /\ now = 0
    /\ persisted = {}
    /\ readSeen = [o \in Objs |-> [st |-> "none", had |-> FALSE]]
    /\ saved = [valid |-> FALSE, by |-> 0, m |-> NewSession(PyStr("", 0))]
    /\ fresh = [o \in Objs |-> FALSE]

\* Session files that hold no session document: text that is not JSON, a
\* JSON text that is no object ([] or null), a file the process may not open
BadFiles ==
    { [st |-> "mixed", doc |-> NoDoc, size |-> 1],
      [st |-> "nonobject", doc |-> NoDoc, size |-> 1],
      [st |-> "denied", doc |-> NoDoc, size |-> 1] }

SessionInit ==
    /\ file = Absent
    /\ mem = [o \in Objs |-> NewSession(PyStr("", 0))]
    /\ pc = [o \in Objs |-> "none"]
    /\ lock = [o \in Objs |-> "none"]
    /\ buf = [o \in Objs |-> NoDoc]
    /\ now = 0
    /\ persisted = {}
    /\ readSeen = [o \in Objs |-> [st |-> "none", had |-> FALSE]]
    /\ saved = [valid |-> FALSE, by |-> 0, m |-> NewSession(PyStr("", 0))]
    /\ fresh = [o \in Objs |-> FALSE]
    /\ RunIdle
    /\ registry = ImportedRegistry
    /\ dispatch = NoDispatch
    /\ listing = NoListing
    /\ parsed = NoParse
    /\ SpawnIdle

\* Several processes work on the session file at once.
SessionNext == \E o \in Objs : SessionStep(o)

SessionSpec == SessionInit /\ [][SessionNext]_vars

\* One operation at a time: an object starts a step only when no other
\* object is inside _load or save.
Quiet(o) == \A q \in Objs \ {o} : pc[q] \in {"none", "idle"}

SeqSessionNext == \E o \in Objs : Quiet(o) /\ SessionStep(o)

SeqSessionSpec == SessionInit /\ [][SeqSessionNext]_vars

\* The session file exists and holds no session document
BadFileInit ==
    /\ file \in BadFiles
    /\ mem = [o \in Objs |-> NewSession(PyStr("", 0))]
    /\ pc = [o \in Objs |-> "none"]
    /\ lock = [o \in Objs |-> "none"]
    /\ buf = [o \in Objs |-> NoDoc]
    /\ now = 0
    /\ persisted = {}
    /\ readSeen = [o \in Objs |-> [st |-> "none", had |-> FALSE]]
    /\ saved = [valid |-> FALSE, by |-> 0, m |-> NewSession(PyStr("", 0))]
    /\ fresh = [o \in Objs |-> FALSE]
    /\ RunIdle
    /\ registry = ImportedRegistry
    /\ dispatch = NoDispatch
    /\ listing = NoListing
    /\ parsed = NoParse
    /\ SpawnIdle

BadFileSpec == BadFileInit /\ [][SeqSessionNext]_vars

\* ------------------------------------------------------------ Agent.run
\* Turn budgets and tool calls per response explored
MaxTurns == 2
MaxCalls == 2

\* self.session of the agent is Session object 1; the other objects are idle.
\* Agent.__init__ passes agent_name to Session (agent.py:143) and run reads
\* self.session.agent_name (agent.py:426), which session.py does not define:
\* the run loop is modelled for a Session that carries that attribute.
Agent == 1

\* A response of chat.completions.create: it raises, or returns a message with
\* a content (<<>> for None or "") and a number of tool calls
ModelResponses ==
    [kind : {"raise"}, content : {<<>>}, tool_calls : {0}] \cup
    [kind : {"message"}, content : {<<>>, <<"answer">>}, tool_calls : 0..MaxCalls]

\* tool_call.function.arguments: a JSON object, text that is not JSON, or
\* JSON that is not an object
ArgTexts == {"object", "malformed", "nonobject"}

\* A parse that hands the arguments text on as it is
parse_args_asis(a) == a

\* agent.py:475-478: json.loads of the arguments, {} on JSONDecodeError
parse_args(a) == IF a = "malformed" THEN "empty" ELSE a

\* What a skill script run by the command does to the session: nothing, or
\* Session(session_id) followed by append_store(data)
ScriptNote == [type |-> PyStr("query", 0), arg |-> PyInt(5)]

EffectsFor(name, args) ==
    IF name = "bash" /\ args = "object"
    THEN [append : BOOLEAN, data : {ScriptNote}]
    ELSE [append : {FALSE}, data : {ScriptNote}]

\* The session file after the script ran at clock value t
ScriptFile(f, eff, t) ==
    IF eff.append
    THEN Flushed(Truncated, json_dump(WithNote(Loaded(NewSession(PyStr("", 0)), f), t, eff.data)))
    ELSE f

\* Outcomes a call can have, by tool name and parsed arguments
OutcomesFor(name, args) ==
    CASE name = "bash" /\ args = "object" -> BashOutcomes
      [] name = "bash" ->
            [kind : {"exit0"}, stdout : {<<>>}, stderr : {<<>>}]
      [] name \in {"get_skill", "get_skill_reference"} ->
            [kind : {"value"}, stdout : {<<"text">>, <<START, "{A}", END>>}, stderr : {<<>>}]
      [] args = "empty" ->
            [kind : {"raise"}, stdout : {<<"text">>}, stderr : {<<>>}]
      [] OTHER -> ImplOutcomes

\* args.get(...) on a value that is no dict raises AttributeError (agent.py:290,
\* 294, 301); execute_tool catches the TypeError of ** itself
ToolRaises(name, args) ==
    name \in {"get_skill", "get_skill_reference", "bash"} /\ args = "nonobject"

\* Agent._execute_tool(name, args): (result, is_final, final_data)
ExecuteTool(reg, name, args, out) ==
    CASE name \in {"get_skill", "get_skill_reference"} ->
            [result |-> out.stdout, is_final |-> FALSE, data |-> None]
      [] name = "bash" ->
            LET p == parse_final_result(bash_with_session(out))
            IN [result |-> bash_with_session(out), is_final |-> p.is_final, data |-> p.data]
      [] OTHER ->
            [result |-> execute_tool(reg, name, args, out).result,
             is_final |-> FALSE, data |-> None]

\* A text holds a Final-Result block: start marker, JSON object, end marker
HasBlock(t) ==
    \E i \in 1..Len(t) : \E j \in (i + 1)..Len(t) :
        /\ t[i] = START /\ t[j] = END
        /\ strip(SubSeq(t, i + 1, j - 1)) \in { <<x>> : x \in JsonObjects }

\* The JSON object of the first block of a text
BlockObject(t) ==
    LET i == Min({ x \in 1..Len(t) : \E j \in (x + 1)..Len(t) :
                     /\ t[x] = START /\ t[j] = END
                     /\ strip(SubSeq(t, x + 1, j - 1)) \in { <<y>> : y \in JsonObjects } })
        j == Min({ x \in (i + 1)..Len(t) : t[x] = END })
    IN strip(SubSeq(t, i + 1, j - 1))

\* The block is what lies between the first start marker and the next end marker
FirstPairIsBlock(t) ==
    /\ HasBlock(t)
    /\ MatchGroup(t) \in { <<x>> : x \in JsonObjects }

SetReason(tr, r) == [tr EXCEPT !.termination_reason = r]

\* _build_tools (agent.py:245-257) of an agent with at most one skill:
\* self.tools = get_tool_schemas(["bash"])
build_tools(reg) == BuildTools(reg, FALSE)

\* tools=self.tools if self.tools else None (agent.py:449 and 576); None is <<>>
RequestTools(tools) == tools

\* ---- image injection (image_loader.py, agent.py:335-364)
\* Case ids a navigate command can name: case 1 has images, case 2 has none
CaseIds == {1, 2}

\* ImageLoader._index: case id -> its images; _load (image_loader.py:180-199)
\* enters a case only with an image that has a url, so no entry is empty
ImageIndex == [c \in {1} |-> <<"img">>]

\* ImageLoader.has_images(case_id)
has_images(c) == c \in DOMAIN ImageIndex

\* ImageLoader.get_images(case_id)
get_images(c) == IF c \in DOMAIN ImageIndex THEN ImageIndex[c] ELSE <<>>

\* ImageLoader.format_as_api_content(case_id): a caption block per image,
\* followed by the image block when the image could be resolved
format_as_api_content(c) ==
    IF get_images(c) = <<>> THEN <<>>
    ELSE [i \in 1..Len(get_images(c)) |-> "image block"]

\* ImageLoader.format_as_text(case_id)
format_as_text(c) ==
    IF get_images(c) = <<>> THEN <<>>
    ELSE <<"Case has image(s):">> \o [i \in 1..Len(get_images(c)) |-> "image line"]

\* A message of the conversation: role, tool_call_id (<<>> when it has none),
\* its content, the listed tool calls of an assistant message, and the case
\* whose images it carries (0 when it carries none)
Message(role, id, content, tcs, c) ==
    [role |-> role, id |-> id, content |-> content, tool_calls |-> tcs, case |-> c]

\* An injection that appends the header message for every case
inject_case_images_always(loader, vision, c, msgs) ==
    IF loader = "none" THEN [injected |-> FALSE, messages |-> msgs]
    ELSE [injected |-> TRUE,
          messages |-> Append(msgs, Message("user", <<>>,
                                 <<"--- Medical images for case">> \o format_as_api_content(c),
                                 <<>>, c))]

\* Agent._inject_case_images(case_id, messages): the value returned and the
\* messages list afterwards
inject_case_images(loader, vision, c, msgs) ==
    IF loader = "none" \/ ~has_images(c)
    THEN [injected |-> FALSE, messages |-> msgs]
    ELSE IF vision
         THEN IF format_as_api_content(c) # <<>>
              THEN [injected |-> TRUE,
                    messages |-> Append(msgs, Message("user", <<>>,
                                   <<"--- Medical images for case">> \o format_as_api_content(c),
                                   <<>>, c))]
              ELSE [injected |-> FALSE, messages |-> msgs]
         ELSE IF format_as_text(c) # <<>>
              THEN [injected |-> TRUE,
                    messages |-> Append(msgs, Message("user", <<>>, format_as_text(c),
                                                      <<>>, c))]
              ELSE [injected |-> FALSE, messages |-> msgs]

\* ---- the conversation of a run
\* The case ids below are the tokens of a bash command (a token sequence).
\* The case a string of digits names (0: the token is no string of digits)
CaseOf(tok) == CASE tok = "1" -> 1 [] tok = "2" -> 2 [] OTHER -> 0

\* Agent._extract_navigate_case_id(command):
\* re.search(r'navigate\s+--case-id\s+(\d+)', command); 0 stands for None
extract_navigate_case_id(cmd) ==
    LET hits == { i \in 1..(Len(cmd) - 2) :
                    /\ cmd[i] = "navigate"
                    /\ cmd[i + 1] = "--case-id"
                    /\ CaseOf(cmd[i + 2]) # 0 }
    IN IF hits = {} THEN 0 ELSE CaseOf(cmd[Min(hits) + 2])

\* A listed tool call: function name, arguments text, the command the
\* arguments hold
Listed(name, a, cmd) == [name |-> name, arguments |-> a, command |-> cmd]

\* Tool-call lists a response carries (arguments that are JSON but no object
\* make the call raise, see ToolRaises, and are left to Spec)
CallShapes ==
    { << Listed("bash", "object", <<"research_tools.py", "navigate", "--case-id", "1">>) >>,
      << Listed("bash", "object", <<"ls">>) >>,
      << Listed("bash", "object", <<"ls">>),
         Listed("bash", "object", <<"research_tools.py", "navigate", "--case-id", "1">>) >>,
      << Listed("bash", "object", <<"research_tools.py", "navigate", "--case-id", "1">>),
         Listed("think", "object", <<>>) >>,
      << Listed("bash", "object", <<"research_tools.py", "navigate", "--case-id", "2">>),
         Listed("bash", "object", <<"research_tools.py", "navigate", "--case-id", "1">>) >>,
      << Listed("bash", "malformed", <<"research_tools.py", "navigate", "--case-id", "next">>),
         Listed("think", "object", <<>>) >> }

\* message.tool_calls of the response of turn t: the k-th call has id <<t, k>>
ToolCalls(t, shape) ==
    [k \in 1..Len(shape) |->
        [id |-> <<t, k>>, name |-> shape[k].name, arguments |-> shape[k].arguments,
         command |-> shape[k].command]]

\* A loop that takes the listed calls from the last to the first
NextCall_reversed(cs, k) == cs[Len(cs) - k + 1]

\* for tool_call in message.tool_calls (agent.py:473): the k-th call taken
NextCall(cs, k) == cs[k]

\* agent.py:525-534: the reminder text for turn t of mt, as tokens
turn_warning(t, mt) ==
    IF mt - t <= 3
    THEN <<"[Turn", ToString(t), "/", ToString(mt), "- Only", ToString(mt - t),
           "turns left! Prioritize completing your task.]">>
    ELSE IF mt - t <= 5
         THEN <<"[Turn", ToString(t), "/", ToString(mt), "-", ToString(mt - t),
                "turns remaining, work efficiently.]">>
         ELSE <<"[Turn", ToString(t), "/", ToString(mt), "]">>

\* agent.py:536-545: the reminder is appended to the content of the last
\* message when that is a tool or a user message
add_turn_warning(msgs, t, mt) ==
    IF msgs # <<>> /\ msgs[Len(msgs)].role \in {"tool", "user"}
    THEN [msgs EXCEPT ![Len(msgs)].content = @ \o turn_warning(t, mt)]
    ELSE msgs

\* agent.py:512-522: the injection loop over message.tool_calls
RECURSIVE inject_for_calls(_, _, _, _)
inject_for_calls(loader, vision, cs, msgs) ==
    IF cs = <<>> THEN msgs
    ELSE inject_for_calls(loader, vision, Tail(cs),
            IF /\ Head(cs).name = "bash"
               /\ Head(cs).arguments = "object"
               /\ extract_navigate_case_id(Head(cs).command) # 0
            THEN inject_case_images(loader, vision,
                                    extract_navigate_case_id(Head(cs).command), msgs).messages
            ELSE msgs)

\* agent.py:510-545: what the end of a turn without final result does to the
\* messages
AfterTurn(loader, vision, cs, msgs, t, mt) ==
    add_turn_warning(IF loader # "none" THEN inject_for_calls(loader, vision, cs, msgs)
                     ELSE msgs, t, mt)

\* message.tool_calls of a response, as lists of calls without ids: the lists
\* of CallShapes when the conversation is followed, else left aside
ListedCalls(resp) ==
    IF followed THEN { c \in CallShapes \cup {<<>>} : Len(c) = resp.tool_calls }
    ELSE {<<>>}

\* A loop that never looks at the budget
LoopGoesOn_always(t, mt) == TRUE

\* while turn < self.max_turns (agent.py:442)
LoopGoesOn(t, mt) == t < mt

\* A handler that goes back to the loop condition after a failed model call
AfterLLMError_retry(t, mt) == IF t < mt THEN "model" ELSE "after_loop"

\* except Exception (agent.py:452-455): break, whatever the turn
AfterLLMError(t, mt) == "after_loop"

\* run, lines 389-440: the prompt rebuilt (392), messages (394-420),
\* trajectory, counters
Run ==
    /\ rpc = "ready"
    /\ turn' = 0
    /\ final_response' = <<>>
    /\ final_result_data' = None
    /\ trajectory' = NoTrajectory
    /\ hist0' = IF file.st = "ok" THEN Len(file.doc.history) ELSE 0
    /\ rpc' = IF LoopGoesOn(0, max_turns) THEN "model" ELSE "after_loop"
    /\ UNCHANGED <<max_turns, pending, turn_record, llm_calls, scriptNotes, seen,
                   first_plain, plain_turns, synth>>
    /\ UNCHANGED <<sessVars, toolVars, spawnVars>>
    /\ UNCHANGED callVars
    /\ messages' = IF followed
                   THEN << Message("system", <<>>, <<"system prompt">>, <<>>, 0),
                           Message("user", <<>>, <<"user input">>, <<>>, 0) >>
                   ELSE messages
    /\ UNCHANGED <<calls, executed>>
    /\ agent' = BuildSystemPrompt(agent, mem[Agent])
    /\ UNCHANGED <<image_loader, supports_vision, injected, followed>>

\* run, lines 443-471 and 546-552: one model call of the loop; a response
\* with tool calls is appended as the assistant message
LLMCall(resp) ==
    /\ rpc = "model"
    /\ turn < MaxTurns    \* the turns followed; max_turns may be larger
    /\ turn' = turn + 1
    /\ llm_calls' = llm_calls + 1
    /\ requests' = Append(requests, [phase |-> "loop",
                                     tools |-> RequestTools(build_tools(registry))])
    /\ llm_failed' = IF resp.kind = "raise" /\ ~llm_failed.set
                     THEN [set |-> TRUE, turn |-> turn + 1]
                     ELSE llm_failed
    /\ first_plain' = IF llm_calls = 0 /\ resp.kind = "message" /\ resp.tool_calls = 0
                      THEN [set |-> TRUE, content |-> resp.content]
                      ELSE first_plain
    /\ CASE resp.kind = "raise" ->
              /\ final_response' = <<"Error calling LLM: ", "message">>
              /\ trajectory' = SetReason(trajectory, "llm_error")
              /\ rpc' = AfterLLMError(turn + 1, max_turns)
              /\ UNCHANGED <<pending, turn_record>>
         [] resp.kind = "message" /\ resp.tool_calls = 0 ->
              /\ final_response' = resp.content
              /\ trajectory' =
                    [SetReason(trajectory, "llm_complete") EXCEPT !.turns =
                        Append(@, [turn |-> turn + 1, tool_calls |-> 0, final |-> TRUE,
                                   synthesis |-> FALSE])]
              /\ rpc' = "after_loop"
              /\ UNCHANGED <<pending, turn_record>>
         [] OTHER ->
              /\ pending' = resp.tool_calls
              /\ turn_record' = [turn |-> turn + 1, tool_calls |-> 0, final |-> FALSE,
                                 synthesis |-> FALSE]
              /\ rpc' = "tools"
              /\ UNCHANGED <<final_response, trajectory>>
    /\ UNCHANGED <<max_turns, final_result_data, scriptNotes, hist0, seen, plain_turns,
                   synth>>
    /\ UNCHANGED <<sessVars, toolVars, spawnVars>>
    /\ \E shape \in ListedCalls(resp) :
          /\ calls' = IF followed THEN ToolCalls(turn + 1, shape) ELSE calls
          /\ messages' = IF followed /\ shape # <<>>
                         THEN Append(messages, Message("assistant", <<>>, resp.content,
                                                       ToolCalls(turn + 1, shape), 0))
                         ELSE messages
    /\ executed' = IF followed THEN <<>> ELSE executed
    /\ UNCHANGED <<image_loader, supports_vision, injected, followed, agent>>

\* run, lines 473-502: the next tool call of the turn; a bash call runs the
\* command (a skill script may append a note) and reloads the session; the
\* result is appended as a tool message
ToolCall(name, argtext, out, eff) ==
    \E args \in {parse_args(argtext)} :
    \E r \in {ExecuteTool(registry, name, args, out)} :
    \E runs \in {name = "bash" /\ args = "object" /\ eff.append} :
    \E block \in {HasBlock(r.result)} :
    \E first \in {name = "bash" /\ block /\ FirstPairIsBlock(r.result)} :
    \E rec \in {[turn_record EXCEPT !.tool_calls = @ + 1]} :
    /\ rpc = "tools"
    /\ pending > 0
    /\ followed => /\ name = NextCall(calls, turn_record.tool_calls + 1).name
                   /\ argtext = NextCall(calls, turn_record.tool_calls + 1).arguments
    /\ eff.append => now < MaxClock
    /\ IF ToolRaises(name, args)
       THEN /\ rpc' = "raised"
            /\ UNCHANGED <<pending, turn_record, final_response, final_result_data,
                           trajectory, scriptNotes, seen, file, mem, now>>
       ELSE /\ file' = IF runs THEN ScriptFile(file, eff, now + 1) ELSE file
            /\ now' = IF runs THEN now + 1 ELSE now
            /\ scriptNotes' = IF runs THEN scriptNotes \cup {now + 1} ELSE scriptNotes
            /\ mem' = IF name = "bash"
                      THEN [mem EXCEPT ![Agent] = Loaded(mem[Agent], file')]
                      ELSE mem
            /\ seen' =
                 [any |-> seen.any \/ block,
                  anyObject |-> IF ~seen.any /\ block THEN BlockObject(r.result)
                                ELSE seen.anyObject,
                  turn |-> IF ~seen.any /\ block THEN turn ELSE seen.turn,
                  calls |-> IF ~seen.any /\ block THEN llm_calls ELSE seen.calls,
                  bash |-> seen.bash \/ first,
                  object |-> IF ~seen.bash /\ first THEN BlockObject(r.result)
                             ELSE seen.object,
                  bturn |-> IF ~seen.bash /\ first THEN turn ELSE seen.bturn,
                  bcalls |-> IF ~seen.bash /\ first THEN llm_calls ELSE seen.bcalls]
            /\ IF r.is_final
               THEN /\ final_result_data' = r.data
                    /\ final_response' = IF Truthy(r.data) THEN json_dumps(r.data)
                                         ELSE r.result
                    /\ turn_record' = [rec EXCEPT !.final = TRUE]
                    /\ trajectory' =
                          [SetReason(trajectory, "final_result") EXCEPT !.turns =
                              Append(@, [rec EXCEPT !.final = TRUE])]
                    /\ pending' = 0
               ELSE /\ turn_record' = rec
                    /\ pending' = pending - 1
                    /\ UNCHANGED <<final_result_data, final_response, trajectory>>
            /\ rpc' = "tools"
    /\ UNCHANGED <<max_turns, turn, llm_calls, hist0, first_plain, plain_turns, synth>>
    /\ UNCHANGED <<pc, lock, buf, persisted, readSeen, saved, fresh, toolVars, spawnVars>>
    /\ UNCHANGED callVars
    /\ IF followed /\ ~ToolRaises(name, args)
       THEN /\ messages' = Append(messages,
                 Message("tool", NextCall(calls, turn_record.tool_calls + 1).id, r.result,
                         <<>>, 0))
            /\ executed' = Append(executed,
                 [id |-> NextCall(calls, turn_record.tool_calls + 1).id,
                  args |-> args, result |-> r.result])
       ELSE UNCHANGED <<messages, executed>>
    /\ UNCHANGED calls
    /\ UNCHANGED <<image_loader, supports_vision, injected, followed, agent>>

\* run, lines 504-545: record the turn, leave the loop on a final result, else
\* inject the images of the cases navigated to, add the turn reminder and go
\* on while turn < max_turns
EndTurn ==
    /\ rpc = "tools"
    /\ pending = 0
    /\ trajectory' = [trajectory EXCEPT !.turns = Append(@, turn_record)]
    /\ plain_turns' = IF turn_record.final THEN plain_turns ELSE plain_turns + 1
    /\ rpc' = IF final_result_data # None THEN "after_loop"
              ELSE IF LoopGoesOn(turn, max_turns) THEN "model" ELSE "after_loop"
    /\ UNCHANGED <<max_turns, turn, pending, turn_record, final_response,
                   final_result_data, llm_calls, scriptNotes, hist0, seen, first_plain,
                   synth>>
    /\ UNCHANGED <<sessVars, toolVars, spawnVars>>
    /\ UNCHANGED callVars
    /\ messages' = IF followed /\ final_result_data = None
                   THEN AfterTurn(image_loader, supports_vision, calls, messages, turn,
                                  max_turns)
                   ELSE messages
    /\ UNCHANGED <<calls, executed>>
    /\ UNCHANGED <<image_loader, supports_vision, injected, followed, agent>>

\* A check after the loop that asks for more than max_turns turns
AfterLoop_strict ==
    /\ rpc = "after_loop"
    /\ IF turn > max_turns /\ final_response = <<>>
       THEN /\ trajectory' = SetReason(trajectory, "max_turns_synthesized")
            /\ rpc' = "synth"
       ELSE /\ rpc' = "book"
            /\ UNCHANGED trajectory
    /\ UNCHANGED <<max_turns, turn, pending, turn_record, final_response,
                   final_result_data, llm_calls, scriptNotes, hist0, seen, first_plain,
                   plain_turns, synth>>
    /\ UNCHANGED <<sessVars, toolVars, spawnVars>>
    /\ UNCHANGED callVars
    /\ UNCHANGED msgVars

\* run, lines 554-556: is a synthesis call due
AfterLoop ==
    /\ rpc = "after_loop"
    /\ IF turn >= max_turns /\ final_response = <<>>
       THEN /\ trajectory' = SetReason(trajectory, "max_turns_synthesized")
            /\ rpc' = "synth"
       ELSE /\ rpc' = "book"
            /\ UNCHANGED trajectory
    /\ UNCHANGED <<max_turns, turn, pending, turn_record, final_response,
                   final_result_data, llm_calls, scriptNotes, hist0, seen, first_plain,
                   plain_turns, synth>>
    /\ UNCHANGED <<sessVars, toolVars, spawnVars>>
    /\ UNCHANGED callVars
    /\ UNCHANGED msgVars

\* run, lines 558-597: the synthesis prompt is appended and the synthesis
\* call made
Synthesis(resp) ==
    /\ rpc = "synth"
    /\ llm_calls' = llm_calls + 1
    /\ requests' = Append(requests, [phase |-> "synthesis",
                                     tools |-> RequestTools(build_tools(registry))])
    /\ UNCHANGED llm_failed
    /\ synth' = [calls |-> synth.calls + 1, ok |-> resp.kind = "message",
                 content |-> resp.content]
    /\ IF resp.kind = "message"
       THEN /\ final_response' = IF resp.content # <<>> THEN resp.content
                                 ELSE <<"Unable to synthesize findings.">>
            /\ trajectory' = [trajectory EXCEPT !.turns =
                    Append(@, [turn |-> turn + 1, tool_calls |-> 0, final |-> TRUE,
                               synthesis |-> TRUE])]
       ELSE /\ final_response' =
                    <<"Reached maximum reasoning steps. Failed to synthesize: ", "message">>
            /\ trajectory' = SetReason(trajectory, "max_turns_synthesis_failed")
    /\ rpc' = "book"
    /\ UNCHANGED <<max_turns, turn, pending, turn_record, final_result_data,
                   scriptNotes, hist0, seen, first_plain, plain_turns>>
    /\ UNCHANGED <<sessVars, toolVars, spawnVars>>
    /\ messages' = IF followed
                   THEN Append(messages, Message("user", <<>>, <<"synthesis prompt">>,
                                                 <<>>, 0))
                   ELSE messages
    /\ UNCHANGED <<calls, executed>>
    /\ UNCHANGED <<image_loader, supports_vision, injected, followed, agent>>

\* The run summary handed to add_run (agent.py:612-620)
RunSummary ==
    [run_id |-> PyStr("run", 2),
     output_summary |-> PyStr(IF final_response = <<>> THEN "" ELSE final_response[1], 0),
     output |-> PyStr(IF final_response = <<>> THEN "" ELSE final_response[1], 0),
     final_result_data |-> AsLeaf(final_result_data),
     turns |-> PyInt(turn)]

\* run, lines 599-622: finish and save the trajectory, reload the session,
\* add the run summary, return
Bookkeeping ==
    /\ rpc = "book"
    /\ trajectory' = [trajectory EXCEPT !.saved = TRUE, !.output = final_response,
                         !.final_result_data = final_result_data, !.total_turns = turn]
    /\ now' = now + 1
    /\ mem' = [mem EXCEPT ![Agent] = WithRun(Loaded(mem[Agent], file), now + 1, RunSummary)]
    /\ file' = Flushed(Truncated, json_dump(mem'[Agent]))
    /\ rpc' = "returned"
    /\ UNCHANGED <<max_turns, turn, pending, turn_record, final_response,
                   final_result_data, llm_calls, scriptNotes, hist0, seen, first_plain,
                   plain_turns, synth>>
    /\ UNCHANGED <<pc, lock, buf, persisted, readSeen, saved, fresh, toolVars, spawnVars>>
    /\ UNCHANGED callVars
    /\ UNCHANGED msgVars

\* A session file left by earlier runs: one note and one run summary
PriorFile ==
    Flushed(Truncated,
            json_dump(WithRun(WithNote(NewSession(PyStr("visit", 0)), 0, 
                                       [type |-> PyStr("plan", 0), arg |-> PyNone]),
                              0, CHOOSE r \in Summaries : TRUE)))

\* The agent is constructed: its Session has loaded the file, if there is one
InitWith(files, budgets) ==
    /\ file \in files
    /\ mem = [o \in Objs |-> IF o = Agent THEN Loaded(NewSession(PyStr("", 0)), file)
                             ELSE NewSession(PyStr("", 0))]
    /\ pc = [o \in Objs |-> IF o = Agent THEN "idle" ELSE "none"]
    /\ lock = [o \in Objs |-> "none"]
    /\ buf = [o \in Objs |-> NoDoc]
    /\ now = 0
    /\ persisted = {}
    /\ readSeen = [o \in Objs |-> [st |-> "none", had |-> FALSE]]
    /\ saved = [valid |-> FALSE, by |-> 0, m |-> NewSession(PyStr("", 0))]
    /\ fresh = [o \in Objs |-> FALSE]
    /\ rpc = "ready"
    /\ max_turns \in budgets
    /\ turn = 0
    /\ pending = 0
    /\ turn_record = [turn |-> 0, tool_calls |-> 0, final |-> FALSE, synthesis |-> FALSE]
    /\ final_response = <<>>
    /\ final_result_data = None
    /\ trajectory = NoTrajectory
    /\ llm_calls = 0
    /\ scriptNotes = {}
    /\ hist0 = 0
    /\ seen = NothingSeen
    /\ first_plain = [set |-> FALSE, content |-> <<>>]
    /\ plain_turns = 0
    /\ synth = [calls |-> 0, ok |-> FALSE, content |-> <<>>]
    /\ requests = <<>>
    /\ llm_failed = NotFailed
    /\ MsgIdle
    /\ registry = ImportedRegistry
    /\ agent = AgentInit(<<>>, "", "", mem[Agent], registry)
    /\ dispatch = NoDispatch
    /\ listing = NoListing
    /\ parsed = NoParse
    /\ SpawnIdle

\* The run loop by its control flow; the conversation is left aside
\* Agent(max_turns=n) with a positive budget
Init == InitWith({Absent, PriorFile}, 1..MaxTurns)

Next ==
    \/ Run
    \/ \E resp \in ModelResponses : LLMCall(resp)
    \/ \E name \in ToolNames, a \in ArgTexts :
          \E out \in OutcomesFor(name, parse_args(a)), eff \in EffectsFor(name, parse_args(a)) :
             ToolCall(name, a, out, eff)
    \/ EndTurn
    \/ AfterLoop
    \/ \E resp \in ModelResponses : Synthesis(resp)
    \/ Bookkeeping

Spec == Init /\ [][Next]_vars

\* ------------------------------- runs with any budget on a new session
\* Agent(max_turns=n): the constructor takes any integer (agent.py:163)
RunBudgets == (-1)..MaxTurns

\* The statement the run is at is executed: a step of Next while the run is
\* not over
RunStep ==
    /\ rpc \notin {"returned", "raised"}
    /\ \/ Run
       \/ EndTurn
       \/ AfterLoop
       \/ Bookkeeping
       \/ \E resp \in ModelResponses : LLMCall(resp)
       \/ \E resp \in ModelResponses : Synthesis(resp)
       \/ \E name \in ToolNames, a \in ArgTexts :
             \E out \in OutcomesFor(name, parse_args(a)),
                eff \in EffectsFor(name, parse_args(a)) :
                ToolCall(name, a, out, eff)

\* run is sequential code: while each model call and each tool call returns,
\* the statement the run is at is executed
RunFairness == WF_vars(RunStep)

BudgetSpec == InitWith({Absent}, RunBudgets) /\ [][Next]_vars /\ RunFairness

\* ------------------------------------------- a run after another process
\* Most notes another process adds before the run starts
MaxOtherWrites == 1

\* Another process holding the same session id (a skill script, a
\* sub-agent) appends a note to the session file between Agent(...) and
\* run(): Session(session_id) followed by append_store(data)
OtherWrite ==
    /\ rpc = "ready"
    /\ now < MaxOtherWrites
    /\ now' = now + 1
    /\ file' = ScriptFile(file, [append |-> TRUE, data |-> ScriptNote], now + 1)
    /\ UNCHANGED <<mem, pc, lock, buf, persisted, readSeen, saved, fresh>>
    /\ UNCHANGED <<rpc, max_turns, turn, pending, turn_record, final_response,
                   final_result_data, trajectory, llm_calls, scriptNotes, hist0, seen,
                   first_plain, plain_turns, synth, callVars>>
    /\ UNCHANGED <<msgVars, toolVars, spawnVars>>

\* One-turn runs: what is in question is the prompt the run starts with
PromptInit == Init /\ max_turns = 1

PromptNext ==
    \/ OtherWrite
    \/ Run
    \/ \E resp \in ModelResponses : LLMCall(resp)
    \/ \E name \in ToolNames, a \in ArgTexts :
          \E out \in OutcomesFor(name, parse_args(a)), eff \in EffectsFor(name, parse_args(a)) :
             ToolCall(name, a, out, eff)
    \/ EndTurn
    \/ AfterLoop
    \/ \E resp \in ModelResponses : Synthesis(resp)
    \/ Bookkeeping

PromptSpec == PromptInit /\ [][PromptNext]_vars

\* ---------------------------------------------------------- tool dispatch
\* Names the tool decorator is applied to
RegNames == {"web_search", "bash", "think"}

\* tool(name)(func), line 59: bind the name; a bound name keeps its place
Registered_with(reg, name, impl) ==
    IF name \in Registered(reg)
    THEN [i \in 1..Len(reg) |-> IF reg[i].name = name
                                 THEN [name |-> name, impl |-> impl] ELSE reg[i]]
    ELSE Append(reg, [name |-> name, impl |-> impl])

Register(name, impl) ==
    /\ registry' = Registered_with(registry, name, impl)
    /\ registry' # registry
    /\ dispatch' = NoDispatch
    /\ listing' = NoListing
    /\ UNCHANGED <<parsed, sessVars, runVars, spawnVars>>

\* clear_registry()
ClearRegistry ==
    /\ registry # <<>>
    /\ registry' = <<>>
    /\ dispatch' = NoDispatch
    /\ listing' = NoListing
    /\ UNCHANGED <<parsed, sessVars, runVars, spawnVars>>

\* execute_tool(name, args) called on the registry as it is
Dispatch(name, args, out) ==
    \E r \in {execute_tool(registry, name, args, out)} :
    /\ registry' = r.registry
    /\ dispatch' = [name |-> name, args |-> args, out |-> out, result |-> r.result,
                    ran |-> r.ran, raised |-> r.raised,
                    known |-> name \in Registered(registry),
                    unchanged |-> r.registry = registry]
    /\ listing' = NoListing
    /\ UNCHANGED <<parsed, sessVars, runVars, spawnVars>>

\* Requests of get_tool_schemas: no argument (None), or a list of names
MaxReq == 2
SchemaRequests ==
    {[none |-> TRUE, names |-> <<>>]} \cup
    { [none |-> FALSE, names |-> q] :
        q \in UNION { [1..n -> RegNames \cup {"nope"}] : n \in 0..MaxReq } }

\* get_tool_schemas(tool_names) called on the registry as it is
GetSchemas(req) ==
    /\ listing' = [called |-> TRUE, req |-> req,
                   result |-> get_tool_schemas(registry, req),
                   catalogue |-> registry]
    /\ dispatch' = NoDispatch
    /\ UNCHANGED <<registry, parsed, sessVars, runVars, spawnVars>>

ToolInit ==
    /\ file = Absent
    /\ mem = [o \in Objs |-> NewSession(PyStr("", 0))]
    /\ pc = [o \in Objs |-> "none"]
    /\ lock = [o \in Objs |-> "none"]
    /\ buf = [o \in Objs |-> NoDoc]
    /\ now = 0
    /\ persisted = {}
    /\ readSeen = [o \in Objs |-> [st |-> "none", had |-> FALSE]]
    /\ saved = [valid |-> FALSE, by |-> 0, m |-> NewSession(PyStr("", 0))]
    /\ fresh = [o \in Objs |-> FALSE]
    /\ RunIdle
    /\ registry = ImportedRegistry
    /\ dispatch = NoDispatch
    /\ listing = NoListing
    /\ parsed = NoParse
    /\ SpawnIdle

ToolNext ==
    \/ \E name \in RegNames, impl \in Impls : Register(name, impl)
    \/ ClearRegistry
    \/ \E name \in ToolNames, args \in {"object", "empty", "nonobject"},
          out \in ImplOutcomes : Dispatch(name, args, out)
    \/ \E req \in SchemaRequests : GetSchemas(req)

ToolSpec == ToolInit /\ [][ToolNext]_vars

\* ------------------------------------------------------ parse_final_result
\* Longest text handed to parse_final_result
MaxText == 4

\* Texts a tool can return: markers, white space, JSON and other text
Texts ==
    UNION { [1..n -> {START, END, WS, "{A}", "null", "text"}] : n \in 0..MaxText }

\* parse_final_result(output) called on the text in hand
ParseCall ==
    /\ ~parsed.called
    /\ parsed' = [called |-> TRUE, text |-> parsed.text,
                  result |-> parse_final_result(parsed.text)]
    /\ UNCHANGED <<registry, dispatch, listing, sessVars, runVars, spawnVars>>

\* Some text is in hand, nothing else goes on
ParseInit ==
    /\ SessionIdle
    /\ RunIdle
    /\ registry = ImportedRegistry
    /\ dispatch = NoDispatch
    /\ listing = NoListing
    /\ parsed \in { [NoParse EXCEPT !.text = t] : t \in Texts }
    /\ SpawnIdle

ParseNext == ParseCall

ParseSpec == ParseInit /\ [][ParseNext]_vars

\* ------------------------------------------------------- Agent.__init__
\* Agent(skills=..., custom_instructions=..., custom_system_prompt=...) on a
\* new session
AgentConstruct ==
    /\ ~agent.built
    /\ agent' = AgentInit(agent.skill_names, agent.custom_instructions,
                          agent.custom_system_prompt, mem[Agent], registry)
    /\ UNCHANGED <<messages, calls, executed, image_loader, supports_vision, injected,
                   followed>>
    /\ UNCHANGED <<rpc, max_turns, turn, pending, turn_record, final_response,
                   final_result_data, trajectory, llm_calls, scriptNotes, hist0, seen,
                   first_plain, plain_turns, synth, callVars>>
    /\ UNCHANGED <<sessVars, toolVars, spawnVars>>

\* The arguments of the constructor are in hand
SkillInit ==
    /\ SessionIdle
    /\ LoopIdle
    /\ MsgIdle
    /\ agent \in { [NoAgent EXCEPT !.skill_names = names, !.custom_instructions = ci,
                                    !.custom_system_prompt = csp] :
                      names \in UNION { [1..n -> SkillNames] : n \in 0..MaxSkills },
                      ci \in {"", "custom instructions"},
                      csp \in {"", "custom system prompt"} }
    /\ registry = ImportedRegistry
    /\ dispatch = NoDispatch
    /\ listing = NoListing
    /\ parsed = NoParse
    /\ SpawnIdle

SkillNext == AgentConstruct

SkillSpec == SkillInit /\ [][SkillNext]_vars

\* ---------------------------------------------------- spawn_subagents.py
\* tasks = sys.argv[1:6]
TakeTasks(args) == SubSeq(args, 1, IF Len(args) < MaxTasks THEN Len(args) ELSE MaxTasks)

\* Sub-agents between submit and the return of run_subagent
Running == { i \in DOMAIN sub : sub[i].st = "running" }

\* A start that takes every argument and does not check their number
SpawnStart_unbounded(env) ==
    /\ spc = "start"
    /\ IF Len(argv) < 1 \/ env # "ok"
       THEN /\ spc' = "exit1"
            /\ summary' = [NoSummary EXCEPT !.status = "error"]
            /\ UNCHANGED <<tasks, sub, parent_notes>>
       ELSE /\ tasks' = argv
            /\ parent_notes' = Append(parent_notes,
                    [type |-> "subagent_spawn", num_agents |-> Len(tasks'),
                     ids |-> [i \in 1..Len(tasks') |-> i]])
            /\ sub' = [i \in 1..Len(tasks') |->
                          [st |-> "queued", task |-> tasks'[i], session |-> <<>>,
                           spawned |-> 0]]
            /\ spc' = "pool"
            /\ UNCHANGED summary
    /\ UNCHANGED <<argv, results, peak, gathered>>
    /\ UNCHANGED <<sessVars, runVars, toolVars>>

\* main, lines 113-155: arguments, prompt, main session, task assignment note.
\* env says whether the prompt file and the session environment are there.
SpawnStart(env) ==
    /\ spc = "start"
    /\ IF Len(argv) < 1 \/ Len(TakeTasks(argv)) > MaxTasks \/ env # "ok"
       THEN /\ spc' = "exit1"
            /\ summary' = [NoSummary EXCEPT !.status = "error"]
            /\ tasks' = IF Len(argv) < 1 THEN tasks ELSE TakeTasks(argv)
            /\ UNCHANGED <<sub, parent_notes>>
       ELSE /\ tasks' = TakeTasks(argv)
            /\ parent_notes' = Append(parent_notes,
                    [type |-> "subagent_spawn", num_agents |-> Len(tasks'),
                     ids |-> [i \in 1..Len(tasks') |-> i]])
            /\ sub' = [i \in 1..Len(tasks') |->
                          [st |-> "queued", task |-> tasks'[i], session |-> <<>>,
                           spawned |-> 0]]
            /\ spc' = "pool"
            /\ UNCHANGED summary
    /\ UNCHANGED <<argv, results, peak, gathered>>
    /\ UNCHANGED <<sessVars, runVars, toolVars>>

\* main_session.session_id of the invocation (AGENT_SESSION_ID)
MainSessionId == <<"main">>

\* A session id that leaves the task id out
subagent_session_id_shared(main, i) == main \o <<"_sub">>

\* run_subagent, line 78: f"{main_session_id}_sub{task_id}"
subagent_session_id(main, i) == main \o <<"_sub", ToString(i)>>

\* A worker thread of the pool (max_workers = len(tasks)) enters run_subagent:
\* the Agent is constructed on its session id (lines 78-87); the agent, and
\* the scripts its bash calls run, write the session of that id
\* (agent.py:139-145 and 304-309)
SubStart(i) ==
    /\ spc = "pool"
    /\ i \in DOMAIN sub
    /\ sub[i].st = "queued"
    /\ sub' = [sub EXCEPT ![i].st = "running",
                          ![i].session = subagent_session_id(MainSessionId, i)]
    /\ peak' = IF Cardinality(Running) + 1 > peak THEN Cardinality(Running) + 1 ELSE peak
    /\ UNCHANGED <<argv, tasks, spc, results, parent_notes, summary, gathered>>
    /\ UNCHANGED <<sessVars, runVars, toolVars>>

\* The dict run_subagent returns for task id i: Agent(...).run(task) returned
\* a text, or the constructor or run raised an Exception (lines 92-107)
run_subagent(i, task, how) ==
    IF how = "returned"
    THEN [task_id |-> i, task |-> task, status |-> "success", report |-> "text"]
    ELSE [task_id |-> i, task |-> task, status |-> "error", report |-> "None"]

\* run_subagent of task id i returns
SubFinish(i, how) ==
    /\ spc = "pool"
    /\ i \in DOMAIN sub
    /\ sub[i].st = "running"
    /\ sub' = [sub EXCEPT ![i].st = how]
    /\ UNCHANGED <<argv, tasks, spc, results, parent_notes, summary, peak, gathered>>
    /\ UNCHANGED <<sessVars, runVars, toolVars>>

\* main, lines 168-171: as_completed hands over a finished future
Gather(i) ==
    /\ spc = "pool"
    /\ i \in DOMAIN sub
    /\ sub[i].st \in {"returned", "raised"}
    /\ \A k \in 1..Len(results) : results[k].task_id # i
    /\ results' = Append(results, run_subagent(i, sub[i].task, sub[i].st))
    /\ gathered' = Append(gathered, i)
    /\ UNCHANGED <<argv, tasks, spc, sub, parent_notes, summary, peak>>
    /\ UNCHANGED <<sessVars, runVars, toolVars>>

\* A variant that reports the results as they were gathered
Unsorted(rs) == rs

\* results.sort(key=lambda x: x["task_id"])
SortedByTaskId(rs) == SortSeq(rs, LAMBDA a, b : a.task_id < b.task_id)

\* main, lines 182-205: every future was gathered; sort, store, print
SpawnReport ==
    /\ spc = "pool"
    /\ Len(results) = Len(sub)
    /\ results' = SortedByTaskId(results)
    /\ parent_notes' = Append(parent_notes,
            [type |-> "subagent_results", num_agents |-> Len(tasks),
             ids |-> [k \in 1..Len(results') |-> results'[k].task_id]])
    /\ summary' = [status |-> "completed", num_agents |-> Len(tasks),
                   successful |-> Cardinality({ k \in 1..Len(results') :
                                                  results'[k].status = "success" }),
                   failed |-> Cardinality({ k \in 1..Len(results') :
                                              results'[k].status = "error" }),
                   results |-> results']
    /\ spc' = "done"
    /\ UNCHANGED <<argv, tasks, sub, peak, gathered>>
    /\ UNCHANGED <<sessVars, runVars, toolVars>>

\* The script is started with k task arguments
SpawnInit ==
    /\ file = Absent
    /\ mem = [o \in Objs |-> NewSession(PyStr("", 0))]
    /\ pc = [o \in Objs |-> "none"]
    /\ lock = [o \in Objs |-> "none"]
    /\ buf = [o \in Objs |-> NoDoc]
    /\ now = 0
    /\ persisted = {}
    /\ readSeen = [o \in Objs |-> [st |-> "none", had |-> FALSE]]
    /\ saved = [valid |-> FALSE, by |-> 0, m |-> NewSession(PyStr("", 0))]
    /\ fresh = [o \in Objs |-> FALSE]
    /\ RunIdle
    /\ registry = ImportedRegistry
    /\ dispatch = NoDispatch
    /\ listing = NoListing
    /\ parsed = NoParse
    /\ argv \in { [i \in 1..k |-> i] : k \in 0..MaxArgs }
    /\ tasks = <<>>
    /\ spc = "start"
    /\ sub = <<>>
    /\ results = <<>>
    /\ parent_notes = <<>>
    /\ summary = NoSummary
    /\ peak = 0
    /\ gathered = <<>>

SpawnNext ==
    \/ \E env \in {"ok", "no_prompt", "no_session"} : SpawnStart(env)
    \/ \E i \in 1..(MaxArgs + 1) : SubStart(i)
    \/ \E i \in 1..(MaxArgs + 1), how \in {"returned", "raised"} : SubFinish(i, how)
    \/ \E i \in 1..(MaxArgs + 1) : Gather(i)
    \/ SpawnReport

SpawnSpec == SpawnInit /\ [][SpawnNext]_vars

\* A bash call of sub-agent i runs spawn_subagents.py with the arguments
\* nargs: the agent exposes bash (agent.py:245-257), the bash branch hands
\* any command to the shell with the agent's own session in the environment
\* (agent.py:299-309), and main (lines 110-155) asks nothing about the process
\* it runs in; the agents that invocation creates are counted in spawned.
\* One such call per sub-agent is followed.
SubSpawn(i, nargs) ==
    /\ spc = "pool"
    /\ i \in DOMAIN sub
    /\ sub[i].st = "running"
    /\ sub[i].spawned = 0
    /\ sub' = [sub EXCEPT ![i].spawned = Len(TakeTasks(nargs))]
    /\ UNCHANGED <<argv, tasks, spc, results, parent_notes, summary, peak, gathered>>
    /\ UNCHANGED <<sessVars, runVars, toolVars>>

\* The script is started with one or two task arguments
NestInit == SpawnInit /\ Len(argv) \in {1, 2}

\* An invocation whose sub-agents may run the script themselves
NestNext ==
    \/ SpawnNext
    \/ \E i \in 1..(MaxArgs + 1) :
          \E nargs \in { [k \in 1..n |-> k] : n \in 1..MaxArgs } : SubSpawn(i, nargs)

NestSpec == NestInit /\ [][NestNext]_vars

\* ------------------------------------------------------ image injection
\* Messages a conversation holds when the injection is called
MaxMsgs == 3

SomeMessages ==
    { Message("user", <<>>, <<"question">>, <<>>, 0),
      Message("tool", <<1, 1>>, <<"text">>, <<>>, 0) }

MessageLists == UNION { [1..n -> SomeMessages] : n \in 0..MaxMsgs }

\* agent._inject_case_images(case_id, messages) called on an agent object
\* (test_vision_agent.py:268-321)
InjectCall(c) ==
    /\ Len(messages) < MaxMsgs + 2
    /\ messages' = inject_case_images(image_loader, supports_vision, c, messages).messages
    /\ injected' = [called |-> TRUE, case |-> c,
                    result |-> inject_case_images(image_loader, supports_vision, c,
                                                  messages).injected,
                    before |-> messages]
    /\ UNCHANGED <<calls, executed, image_loader, supports_vision, followed, agent>>
    /\ UNCHANGED <<rpc, max_turns, turn, pending, turn_record, final_response,
                   final_result_data, trajectory, llm_calls, scriptNotes, hist0, seen,
                   first_plain, plain_turns, synth, callVars>>
    /\ UNCHANGED <<sessVars, toolVars, spawnVars>>

\* An agent object with any loader and any model profile, and a conversation
InjectInit ==
    /\ SessionIdle
    /\ LoopIdle
    /\ messages \in MessageLists
    /\ calls = <<>>
    /\ executed = <<>>
    /\ image_loader \in {"none", "loaded"}
    /\ supports_vision \in BOOLEAN
    /\ injected = NoInjection
    /\ followed = FALSE
    /\ agent = AgentInit(<<>>, "", "", NewSession(PyStr("", 0)), ImportedRegistry)
    /\ registry = ImportedRegistry
    /\ dispatch = NoDispatch
    /\ listing = NoListing
    /\ parsed = NoParse
    /\ SpawnIdle

InjectNext == \E c \in CaseIds : InjectCall(c)

InjectSpec == InjectInit /\ [][InjectNext]_vars

\* ------------------------------------------------------ the conversation
\* Outcomes of the calls of a conversation: plain text, a Final-Result block
\* with an object, a Final-Result block with null
TurnOutcomes(name, args) ==
    { o \in OutcomesFor(name, args) :
        /\ o.kind \in {"exit0", "value"}
        /\ o.stderr = <<>>
        /\ o.stdout \in { <<>>, <<"text">>, <<START, WS, "{A}", WS, END>>,
                         <<START, "null", END>> }
        /\ (name = "bash" /\ args = "object") => o.stdout # <<>> }

\* Agent.__init__, lines 167-170 and 201-210: a loader only for a vision
\* profile, and none when the image CSV is missing
AgentProfiles ==
    { [supports_vision |-> TRUE, image_loader |-> "loaded"],
      [supports_vision |-> TRUE, image_loader |-> "none"],
      [supports_vision |-> FALSE, image_loader |-> "none"] }

\* Responses of a conversation: one that lists tool calls has no content
TurnResponses == { r \in ModelResponses : r.tool_calls > 0 => r.content = <<>> }

\* max_turns of the agents whose conversation is followed: the budgets a run
\* can use up within MaxTurns turns, and two larger ones, of which the first
\* MaxTurns turns are followed (the reminder of agent.py:525-534 changes its
\* form with the turns left)
TurnBudgets == 1..MaxTurns \cup {MaxTurns + 3, MaxTurns + 5}

\* The agent is constructed on a new session
TurnInit ==
    /\ SessionIdle
    /\ rpc = "ready"
    /\ max_turns \in TurnBudgets
    /\ turn = 0
    /\ pending = 0
    /\ turn_record = [turn |-> 0, tool_calls |-> 0, final |-> FALSE, synthesis |-> FALSE]
    /\ final_response = <<>>
    /\ final_result_data = None
    /\ trajectory = NoTrajectory
    /\ llm_calls = 0
    /\ scriptNotes = {}
    /\ hist0 = 0
    /\ seen = NothingSeen
    /\ first_plain = [set |-> FALSE, content |-> <<>>]
    /\ plain_turns = 0
    /\ synth = [calls |-> 0, ok |-> FALSE, content |-> <<>>]
    /\ requests = <<>>
    /\ llm_failed = NotFailed
    /\ \E prof \in AgentProfiles :
          /\ image_loader = prof.image_loader
          /\ supports_vision = prof.supports_vision
    /\ messages = <<>>
    /\ calls = <<>>
    /\ executed = <<>>
    /\ injected = NoInjection
    /\ followed = TRUE
    /\ agent = AgentInit(<<>>, "", "", NewSession(PyStr("", 0)), ImportedRegistry)
    /\ registry = ImportedRegistry
    /\ dispatch = NoDispatch
    /\ listing = NoListing
    /\ parsed = NoParse
    /\ SpawnIdle

\* The run loop with its conversation
TurnNext ==
    \/ Run
    \/ \E resp \in TurnResponses : LLMCall(resp)
    \/ \E name \in ToolNames, a \in ArgTexts :
          \E out \in TurnOutcomes(name, parse_args(a)) :
             ToolCall(name, a, out, [append |-> FALSE, data |-> ScriptNote])
    \/ EndTurn
    \/ AfterLoop
    \/ \E resp \in TurnResponses : Synthesis(resp)
    \/ Bookkeeping

TurnSpec == TurnInit /\ [][TurnNext]_vars

\* ------------------------------------------------------------------ claims
\* C1: the persisted notes and run summaries only grow: every entry that was
\* in a complete session file is in every later complete session file.
C1_EntriesOnlyGrow ==
    file.st = "ok" => persisted \subseteq DocStamps(file.doc)

\* C2: a _load never reads a partial write: once a complete session file has
\* been written, json.load never finds the file truncated to nothing or
\* holding the mixed text of two writers.
C2_NoPartialRead ==
    \A o \in Objs : readSeen[o].had => readSeen[o].st \notin {"empty", "mixed"}

\* C3: round trip. An object that loaded the file after a save with no other
\* writer holds exactly the saved context, store and history, and the last
\* saved note is in its context digest.
C3_RoundTrip ==
    \A o \in Objs :
        fresh[o] =>
            /\ mem[o] = saved.m
            /\ saved.m.store # <<>> =>
                 \E i \in 1..Len(get_context_prompt(mem[o]).notes) :
                    get_context_prompt(mem[o]).notes[i] = saved.m.store[Len(saved.m.store)]

\* C3 witness: a freshly constructed object of another process has loaded a
\* saved note and a saved run summary.
C3_Witness ==
    \E o \in Objs :
        /\ fresh[o] /\ saved.by # o /\ pc[o] = "idle"
        /\ saved.m.store # <<>> /\ saved.m.history # <<>>
        /\ saved.m.context.s # ""
\* C4: when run returns, the trajectory has been saved and the session file
\* holds every note the tool scripts appended during the run's bash calls and
\* exactly one new run summary, that of this run, at the end of history.
C4_PostRunBookkeeping ==
    rpc = "returned" =>
        /\ trajectory.saved
        /\ trajectory.termination_reason # "None"
        /\ file.st = "ok"
        /\ scriptNotes \subseteq { file.doc.store[i].timestamp.n : i \in 1..Len(file.doc.store) }
        /\ Len(file.doc.history) = hist0 + 1
        /\ file.doc.history[Len(file.doc.history)].run_id = json_encode(RunSummary.run_id)

\* C4 witness: a run that ended on a final result has returned, after a
\* script appended notes to a session file that already held a run summary.
C4_Witness ==
    /\ rpc = "returned"
    /\ trajectory.termination_reason = "final_result"
    /\ Cardinality(scriptNotes) >= 2
    /\ hist0 = 1

\* C5 as stated: a Final-Result block in the result of any tool call ends the
\* run in that turn with reason final_result, no further model call, and
\* final_result_data equal to the block's JSON object.
C5_AnyToolBlockEndsRun ==
    (seen.any /\ rpc # "raised") =>
        /\ trajectory.termination_reason = "final_result"
        /\ llm_calls = seen.calls
        /\ turn = seen.turn
        /\ final_result_data = [k |-> "dict", v |-> seen.anyObject]

\* C5 amended: a Final-Result block in the result of a bash call, lying between
\* the result's first start marker and the next end marker, ends the run in
\* that turn with reason final_result, no further model call, and
\* final_result_data equal to the block's JSON object.
C5_BashBlockEndsRun ==
    seen.bash =>
        /\ trajectory.termination_reason = "final_result"
        /\ llm_calls = seen.bcalls
        /\ turn = seen.bturn
        /\ final_result_data = [k |-> "dict", v |-> seen.object]
        /\ rpc \in {"tools", "after_loop", "book", "returned"}
        /\ rpc = "tools" => pending = 0
        /\ rpc = "returned" => trajectory.final_result_data = [k |-> "dict", v |-> seen.object]

\* C5 witness: a run has returned after a bash result carrying the empty JSON
\* object in its block, in a turn after a block in another tool's result.
C5_Witness ==
    /\ rpc = "returned"
    /\ seen.bash
    /\ seen.object = <<"{}">>
    /\ seen.turn < seen.bturn

\* C6: when the first response has no tool calls, the run makes exactly one
\* model call, ends with reason llm_complete and returns the response text.
C6_PlainFirstResponse ==
    (first_plain.set /\ rpc = "returned") =>
        /\ llm_calls = 1
        /\ trajectory.termination_reason = "llm_complete"
        /\ final_response = first_plain.content

\* C7 as stated: after max_turns turns with tool calls and no final result the
\* run makes exactly one more model call; on success the reason is
\* max_turns_synthesized and the output is the synthesis text, on failure the
\* reason is max_turns_synthesis_failed and the output is not empty.
C7_SynthesisText ==
    (rpc = "returned" /\ plain_turns = max_turns) =>
        /\ llm_calls = max_turns + 1
        /\ synth.calls = 1
        /\ synth.ok => /\ trajectory.termination_reason = "max_turns_synthesized"
                       /\ final_response = synth.content
        /\ ~synth.ok => /\ trajectory.termination_reason = "max_turns_synthesis_failed"
                        /\ final_response # <<>>

\* C7 amended: as C7, but on success the output is the synthesis text when
\* that text is not empty, and "Unable to synthesize findings." when it is.
C7_SynthesisOnce ==
    (rpc = "returned" /\ plain_turns = max_turns) =>
        /\ llm_calls = max_turns + 1
        /\ synth.calls = 1
        /\ synth.ok => /\ trajectory.termination_reason = "max_turns_synthesized"
                       /\ final_response = IF synth.content # <<>> THEN synth.content
                                           ELSE <<"Unable to synthesize findings.">>
        /\ ~synth.ok => /\ trajectory.termination_reason = "max_turns_synthesis_failed"
                        /\ final_response # <<>>

\* C7 witness: a run of two turns with tool calls has returned after a
\* synthesis call that raised.
C7_Witness ==
    /\ rpc = "returned"
    /\ max_turns = 2
    /\ plain_turns = max_turns
    /\ synth.calls = 1
    /\ ~synth.ok

Reasons ==
    {"llm_complete", "final_result", "llm_error", "max_turns", "max_turns_synthesized",
     "max_turns_synthesis_failed"}

\* C8: termination_reason is set exactly once: never changed once it is not
\* null, and one of the closed set when run returns.
C8_ReasonSetOnce ==
    /\ [][trajectory.termination_reason # "None" =>
            trajectory'.termination_reason = trajectory.termination_reason]_vars
    /\ [](rpc = "returned" => trajectory.termination_reason \in Reasons)

\* C9: run never propagates an exception.
C9_NeverRaises == rpc # "raised"

\* C11 as stated: get_tool_schemas(names) returns the schemas of exactly the
\* requested registered names, each once, in registration order whatever the
\* order of the request; with no argument it returns every schema in
\* registration order.
C11_CatalogueOrder ==
    listing.called =>
        listing.result =
            IF listing.req.none THEN listing.catalogue
            ELSE SelectSeq(listing.catalogue,
                           LAMBDA e : \E i \in 1..Len(listing.req.names) :
                                         listing.req.names[i] = e.name)

\* C11 amended: get_tool_schemas(names) returns, in the order of the request
\* and once per occurrence in it, the schema of every requested name that is
\* registered, dropping unknown names; with no argument it returns every
\* schema in registration order.
C11_RequestOrder ==
    listing.called =>
        IF listing.req.none THEN listing.result = listing.catalogue
        ELSE LET known == SelectSeq(listing.req.names,
                                    LAMBDA n : \E i \in 1..Len(listing.catalogue) :
                                                  listing.catalogue[i].name = n)
             IN /\ Len(listing.result) = Len(known)
                /\ \A i \in 1..Len(known) :
                      /\ listing.result[i].name = known[i]
                      /\ \E j \in 1..Len(listing.catalogue) :
                            listing.catalogue[j] = listing.result[i]

\* C11 witness: a request that names a later-registered tool first, answered
\* after a tool was bound again.
C11_Witness ==
    /\ listing.called
    /\ listing.req.names = <<"think", "bash">>
    /\ Len(listing.result) = 2
    /\ \E i \in 1..Len(listing.catalogue) : listing.catalogue[i].impl = "other"

\* C12: for n tasks the spawner reports exactly n results, one per task id
\* 1..n in increasing order whatever order they were gathered in; the result of
\* task i has status error when its sub-agent raised and success when it
\* returned, and no exception leaves the script.
C12_ResultsInTaskOrder ==
    spc = "done" =>
        /\ Len(tasks) \in 1..MaxTasks
        /\ Len(summary.results) = Len(tasks)
        /\ \A k \in 1..Len(tasks) :
              /\ summary.results[k].task_id = k
              /\ summary.results[k].task = tasks[k]
              /\ sub[k].st = "raised" => summary.results[k].status = "error"
              /\ sub[k].st = "returned" => summary.results[k].status = "success"
              /\ sub[k].st \in {"raised", "returned"}
        /\ summary.failed = Cardinality({ k \in 1..Len(tasks) : sub[k].st = "raised" })
        /\ summary.successful + summary.failed = Len(tasks)

\* C12 witness: five tasks, gathered out of task order, exactly one of which
\* raised, have been reported.
C12_Witness ==
    /\ spc = "done"
    /\ Len(tasks) = 5
    /\ gathered[1] = 4 /\ gathered[5] = 1
    /\ summary.failed = 1
    /\ sub[3].st = "raised"

\* C13: one invocation starts at most 5 sub-agents in total and never has
\* more than 5 running, whatever the number of arguments, and the task ids
\* are exactly 1..n with n <= 5.
C13_AtMostFive ==
    /\ Len(sub) <= 5
    /\ Cardinality(Running) <= 5
    /\ peak <= 5
    /\ spc \in {"pool", "done"} =>
          /\ DOMAIN sub = 1..Len(tasks)
          /\ Len(tasks) <= 5
          /\ Len(tasks) = (IF Len(argv) < 5 THEN Len(argv) ELSE 5)
          /\ parent_notes[1].ids = [i \in 1..Len(tasks) |-> i]
    /\ \A k \in 1..Len(results) : results[k].task_id \in 1..Len(tasks)
    /\ \A j, k \in 1..Len(results) : j # k => results[j].task_id # results[k].task_id

\* C13 witness: a command line with more than five task arguments has five
\* sub-agents running at once.
C13_Witness ==
    /\ Len(argv) > 5
    /\ Cardinality(Running) = 5
    /\ peak = 5

\* C10: execute_tool never raises; an unregistered name gives the not-found
\* text and enters no implementation; a registered name gives the
\* implementation's result, Success for None, or an Error text; the registry
\* is as it was.
C10_DispatchNeverRaises ==
    dispatch.name # "" =>
        /\ ~dispatch.raised
        /\ dispatch.unchanged
        /\ ~dispatch.known =>
              /\ dispatch.result = <<"Error: Tool '", dispatch.name, "' not found">>
              /\ ~dispatch.ran
        /\ (dispatch.known /\ dispatch.ran) =>
              CASE dispatch.out.kind = "value" -> dispatch.result = dispatch.out.stdout
                [] dispatch.out.kind = "none" -> dispatch.result = <<"Success">>
                [] dispatch.out.kind = "raise" -> dispatch.result = <<"Error: ", "message">>
        /\ (dispatch.known /\ ~dispatch.ran) => dispatch.result[1] = "Error: "

\* C10 witness: dispatches of a registered name whose implementation raised,
\* after the name was bound again.
C10_Witness ==
    /\ dispatch.known
    /\ dispatch.ran
    /\ dispatch.out.kind = "raise"
    /\ \E i \in 1..Len(registry) : registry[i].name = dispatch.name /\ registry[i].impl = "other"

\* C14: _inject_case_images for a case that has no images returns False and
\* leaves the messages list as it was, for a vision profile, for a text-only
\* profile, and when no image loader is configured (then for every case).
C14_NoImagesNoOp ==
    (injected.called /\ (~has_images(injected.case) \/ image_loader = "none")) =>
        /\ injected.result = FALSE
        /\ messages = injected.before

\* C14 witness: a vision agent with a loader was asked to inject the images
\* of the case without images into a conversation that holds messages.
C14_Witness ==
    /\ injected.called
    /\ ~has_images(injected.case)
    /\ image_loader = "loaded"
    /\ supports_vision
    /\ Len(injected.before) = MaxMsgs

\* C15: when a model call of the loop raises in turn t, the run ends at once
\* with reason llm_error and the error text as its output: from then on the
\* run is past its loop, the failed call stays the last model call (no retry,
\* no synthesis call), so no tool is executed, for every t from 1 to max_turns.
C15_LLMErrorEndsRun ==
    llm_failed.set =>
        /\ rpc \in {"after_loop", "book", "returned"}
        /\ llm_failed.turn \in 1..max_turns
        /\ turn = llm_failed.turn
        /\ llm_calls = llm_failed.turn
        /\ Len(requests) = llm_failed.turn
        /\ synth.calls = 0
        /\ trajectory.termination_reason = "llm_error"
        /\ final_response = <<"Error calling LLM: ", "message">>
        /\ (rpc = "returned" => trajectory.output = final_response)

\* C15 witness: a run whose second model call raised has returned.
C15_Witness ==
    /\ llm_failed.set
    /\ llm_failed.turn = 2
    /\ max_turns >= 2
    /\ rpc = "returned"

\* C17: whenever a bash result holds the marker pair (the call is recorded
\* with is_final true), whatever lies between the markers, the run stops:
\* the other tool calls of the turn are not executed, no model call follows,
\* and the termination reason stays final_result.
C17_MarkersStopRun ==
    /\ [][(rpc = "tools" /\ turn_record.final) =>
            /\ llm_calls' = llm_calls
            /\ turn_record' = turn_record
            /\ rpc' \in {"tools", "after_loop"}]_vars
    /\ [][trajectory.termination_reason = "final_result" =>
            trajectory'.termination_reason = "final_result"]_vars

\* C18: the synthesis request carries no tools, and every request of the
\* loop carries the tool schemas the agent exposes.
C18_SynthesisWithoutTools ==
    \A i \in 1..Len(requests) :
        /\ requests[i].phase = "synthesis" => requests[i].tools = <<>>
        /\ requests[i].phase = "loop" =>
              /\ requests[i].tools = build_tools(registry)
              /\ requests[i].tools # <<>>

\* C16: a session file that exists and is malformed or unreadable is never
\* fatal: no Session operation raises, a load of it leaves the object with
\* the fields it was constructed with, and every save that completes leaves
\* a well-formed file holding the object's fields.
C16_BadFileNeverFatal ==
    /\ [](\A o \in Objs : pc[o] # "raised")
    /\ [][\A o \in Objs :
            (pc[o] = "load_read" /\ file.st # "ok") =>
                (mem'[o] = mem[o] /\ pc'[o] = "idle")]_vars
    /\ [][\A o \in Objs :
            pc[o] = "save_close" =>
                (file'.st = "ok" /\ file'.doc = json_dump(mem[o]))]_vars

\* Index of the last assistant message of the conversation, 0 when none
LastAssistant ==
    IF \E i \in 1..Len(messages) : messages[i].role = "assistant"
    THEN CHOOSE i \in 1..Len(messages) :
            /\ messages[i].role = "assistant"
            /\ \A j \in (i + 1)..Len(messages) : messages[j].role # "assistant"
    ELSE 0

IsPrefix(p, t) == Len(p) <= Len(t) /\ SubSeq(t, 1, Len(p)) = p

\* C19: within a turn the listed tool calls are executed in the listed order,
\* one at a time; each executed call appends exactly one tool message with
\* the call's id and its raw result, after the assistant message and before
\* the next model call; a model call is made only when no tool call of the
\* agent is pending.
C19_ToolMessagesInListedOrder ==
    /\ []((LastAssistant > 0 /\ calls # <<>>) =>
            /\ messages[LastAssistant].tool_calls = calls
            /\ Len(executed) <= Len(calls)
            /\ LastAssistant + Len(executed) <= Len(messages)
            /\ \A k \in 1..Len(executed) :
                  /\ executed[k].id = calls[k].id
                  /\ messages[LastAssistant + k].role = "tool"
                  /\ messages[LastAssistant + k].id = calls[k].id
                  /\ IsPrefix(executed[k].result, messages[LastAssistant + k].content)
                  /\ rpc = "tools" =>
                        messages[LastAssistant + k].content = executed[k].result
            /\ \A j \in (LastAssistant + Len(executed) + 1)..Len(messages) :
                  messages[j].role # "tool"
            /\ rpc = "tools" => Len(messages) = LastAssistant + Len(executed)
            /\ (rpc = "model" /\ ~turn_record.final) => Len(executed) = Len(calls))
    /\ [](rpc \in {"model", "synth"} => pending = 0)
    /\ [][(executed' # executed /\ executed' # <<>>) =>
            /\ Len(executed') = Len(executed) + 1
            /\ messages' = Append(messages,
                  Message("tool", executed'[Len(executed')].id,
                          executed'[Len(executed')].result, <<>>, 0))]_vars
    /\ [][llm_calls' # llm_calls => (pending = 0 /\ rpc \in {"model", "synth"})]_vars

\* C19 witness: the second model call is due after a turn whose two listed
\* calls, a bash call and a think call, were both executed.
C19_Witness ==
    /\ rpc = "model"
    /\ turn = 1
    /\ Len(calls) = 2
    /\ calls[1].name = "bash"
    /\ calls[2].name = "think"
    /\ Len(executed) = 2

\* The image messages that follow the tool messages of the last turn
ImageMessages ==
    SelectSeq(SubSeq(messages, LastAssistant + Len(executed) + 1, Len(messages)),
              LAMBDA m : m.case # 0)

\* The listed bash calls whose command navigates to a case that has images
NavigateCalls ==
    SelectSeq(calls, LAMBDA tc :
        /\ tc.name = "bash"
        /\ tc.arguments = "object"
        /\ has_images(extract_navigate_case_id(tc.command)))

\* C20: at the end of a turn with tool calls and no final result, each bash
\* call that navigates to a case with images has one user message with that
\* case's images, placed right after the turn's tool messages and before the
\* next model call; a turn that produced a final result, and an agent without
\* image loader, get no image message.
C20_ImagesAfterToolResults ==
    (LastAssistant > 0 /\ calls # <<>>) =>
        /\ (turn_record.final \/ image_loader = "none" \/ rpc = "tools") =>
              ImageMessages = <<>>
        /\ (~turn_record.final /\ image_loader # "none" /\ rpc # "tools") =>
              /\ Len(ImageMessages) = Len(NavigateCalls)
              /\ \A i \in 1..Len(ImageMessages) :
                    /\ ImageMessages[i].role = "user"
                    /\ ImageMessages[i].case =
                          extract_navigate_case_id(NavigateCalls[i].command)
                    /\ messages[LastAssistant + Len(executed) + i].case =
                          ImageMessages[i].case

\* Places of the conversation where a turn reminder starts
ReminderMarks(msgs) ==
    { p \in UNION { {i} \X DOMAIN msgs[i].content : i \in DOMAIN msgs } :
        msgs[p[1]].content[p[2]] = "[Turn" }

\* The reminder of turn t of mt: urgent, moderate or plain
ReminderOf(t, mt) ==
    CASE mt - t <= 3 ->
            <<"[Turn", ToString(t), "/", ToString(mt), "- Only", ToString(mt - t),
              "turns left! Prioritize completing your task.]">>
      [] mt - t \in {4, 5} ->
            <<"[Turn", ToString(t), "/", ToString(mt), "-", ToString(mt - t),
              "turns remaining, work efficiently.]">>
      [] OTHER -> <<"[Turn", ToString(t), "/", ToString(mt), "]">>

\* The step that closes a turn with tool calls
TurnCloses == rpc = "tools" /\ rpc' \in {"model", "after_loop"}

\* C21: the step that closes turn t with tool calls appends exactly one
\* reminder, the one of turn t of max_turns (urgent when max_turns - t <= 3,
\* moderate when it is 4 or 5, plain otherwise), to the last message, which
\* is the last tool message or the image message just injected, and changes
\* nothing else; when the turn ends the run (no model call follows it) the
\* messages are left alone; no other step adds a reminder.
C21_TurnReminder ==
    /\ [][TurnCloses =>
            IF rpc' = "after_loop" /\ final_response # <<>>
            THEN messages' = messages
            ELSE LET n == Len(messages')
                     R == ReminderOf(turn, max_turns)
                     c == messages'[n].content
                 IN /\ n >= Len(messages)
                    /\ Cardinality(ReminderMarks(messages')) =
                          Cardinality(ReminderMarks(messages)) + 1
                    /\ messages'[n].role \in {"tool", "user"}
                    /\ Len(c) > Len(R)
                    /\ SubSeq(c, Len(c) - Len(R) + 1, Len(c)) = R
                    /\ n = Len(messages) =>
                          /\ messages[n].role = "tool"
                          /\ messages' = [messages EXCEPT ![n].content = @ \o R]
                    /\ n > Len(messages) =>
                          /\ messages'[n].case # 0
                          /\ SubSeq(messages', 1, Len(messages)) = messages]_vars
    /\ [][~TurnCloses =>
            Cardinality(ReminderMarks(messages')) =
               Cardinality(ReminderMarks(messages))]_vars

\* The step that executes the next listed call, whose arguments are
\* malformed JSON
MalformedCallRuns ==
    /\ rpc = "tools"
    /\ pending > 0
    /\ Len(executed) < Len(calls)
    /\ calls[Len(executed) + 1].arguments = "malformed"
    /\ turn_record' # turn_record

\* C22: a listed call whose arguments are malformed JSON is dispatched with
\* the empty argument set; its result, a text, is appended as the tool
\* message of the call; the turn goes on with the next listed call (one call
\* fewer is pending) and no exception ends the run.
C22_MalformedArgsDegrade ==
    /\ [][MalformedCallRuns =>
            /\ Len(executed') = Len(executed) + 1
            /\ executed'[Len(executed')].id = calls[Len(executed) + 1].id
            /\ executed'[Len(executed')].args = "empty"
            /\ executed'[Len(executed')].result # <<>>
            /\ messages' = Append(messages,
                  Message("tool", calls[Len(executed) + 1].id,
                          executed'[Len(executed')].result, <<>>, 0))
            /\ rpc' = "tools"
            /\ pending' = pending - 1
            /\ final_result_data' = final_result_data]_vars
    /\ [](rpc # "raised")

\* C22 witness: the second turn runs its tools after a first turn whose
\* first listed call had malformed arguments and whose second call ran too.
C22_Witness ==
    /\ turn = 2
    /\ rpc = "tools"
    /\ Len(executed) > 0
    /\ \E i \in 1..(Len(messages) - 2) :
          /\ messages[i].role = "assistant"
          /\ Len(messages[i].tool_calls) = 2
          /\ messages[i].tool_calls[1].arguments = "malformed"
          /\ messages[i + 1].role = "tool"
          /\ messages[i + 2].role = "tool"
          /\ messages[i + 2].id = messages[i].tool_calls[2].id

\* The text between the first start marker of t and the next end marker,
\* trimmed; defined when an end marker follows that start marker
Between(t) ==
    LET i == Min({ x \in DOMAIN t : t[x] = START })
        j == Min({ x \in (i + 1)..Len(t) : t[x] = END })
    IN strip(SubSeq(t, i + 1, j - 1))

Started == { i \in DOMAIN sub : sub[i].st # "queued" }

\* C24: in an invocation that gets past its checks the parent session gets
\* two notes and only steps of the main thread write it: the task-assignment
\* note is there before a sub-agent starts, the results note holds the
\* results of all n tasks and is written when every sub-agent has finished;
\* the sessions the sub-agents write are pairwise distinct and none is the
\* parent's.
C24_ParentNotes ==
    /\ [](Started # {} =>
            /\ Len(parent_notes) >= 1
            /\ parent_notes[1].type = "subagent_spawn")
    /\ [](\A k \in 1..Len(parent_notes) :
            parent_notes[k].type = "subagent_results" =>
               /\ k = 2
               /\ \A i \in DOMAIN sub : sub[i].st \in {"returned", "raised"}
               /\ parent_notes[k].ids = [i \in 1..Len(tasks) |-> i])
    /\ [](Len(parent_notes) <= 2)
    /\ [](spc = "done" => Len(parent_notes) = 2)
    /\ [](spc = "exit1" => parent_notes = <<>> /\ Started = {})
    /\ [][parent_notes' # parent_notes => (spc' # spc /\ Started' = Started)]_vars
    /\ [][Started' # Started => parent_notes' = parent_notes]_vars
    /\ [](\A i \in Started :
            /\ sub[i].session # MainSessionId
            /\ \A j \in Started : sub[j].session = sub[i].session => j = i)

\* C24 witness: an invocation with two tasks is done, both notes are in the
\* parent session and both sub-agents ran on their own sessions.
C24_Witness ==
    /\ spc = "done"
    /\ Len(tasks) = 2
    /\ Len(parent_notes) = 2
    /\ parent_notes[2].type = "subagent_results"
    /\ sub[1].session = <<"main", "_sub", "1">>
    /\ sub[2].session = <<"main", "_sub", "2">>

\* Agents created by the spawner invocations of the first n sub-agents
RECURSIVE SpawnedBelow(_)
SpawnedBelow(n) == IF n = 0 THEN 0 ELSE sub[n].spawned + SpawnedBelow(n - 1)

\* C25: no agent created by the spawner creates agents itself, and the
\* agents that descend from one invocation are at most MaxTasks.
C25_NoNesting ==
    /\ \A i \in DOMAIN sub : sub[i].spawned = 0
    /\ Len(sub) + SpawnedBelow(Len(sub)) <= MaxTasks

\* Names of the schemas given to the model
ExposedNames(a) == [i \in 1..Len(a.tools) |-> a.tools[i].name]

\* Texts of the skill parts of the system prompt of agent a
SkillParts(a) == SelectSeq(a.system_prompt, LAMBDA p : p.part = "skill")

PromptDigest(a) ==
    LET parts == SelectSeq(a.system_prompt, LAMBDA p : p.part = "session")
    IN IF parts = <<>> THEN NoDigest ELSE parts[1].digest

\* The digest of what the session file holds
FileDigest == get_context_prompt(Loaded(NewSession(PyStr("", 0)), file))

\* C27: the system prompt a run starts with shows the digest (last 10 notes,
\* last 5 runs) of what the session file holds when the run starts, whoever
\* wrote it.
C27_PromptFromFile ==
    [][(rpc = "ready" /\ rpc' # "ready") => PromptDigest(agent') = FileDigest]_vars

\* The run has left Agent.run: it returned, or an exception left it
RunOver == rpc \in {"returned", "raised"}

\* Calls and turns of the run stay within the budget b
WithinBudget(b) ==
    /\ llm_calls - synth.calls <= b
    /\ synth.calls <= 1
    /\ rpc = "tools" => turn \in 1..b
    /\ turn <= b
    /\ trajectory.saved => trajectory.total_turns <= b

\* C28 as stated: every run terminates; it makes at most max_turns model
\* calls in the loop and at most one synthesis call, executes tools in at
\* most max_turns turns, and total_turns never exceeds max_turns.
C28_WithinMaxTurns == <>RunOver /\ []WithinBudget(max_turns)

\* C28 amended: every run terminates; the model calls of the loop, the turns
\* in which tools are executed and total_turns are at most max_turns when
\* max_turns is not negative and zero when it is negative; there is at most
\* one synthesis call.
C28_RunTerminates == <>RunOver /\ []WithinBudget(IF max_turns < 0 THEN 0 ELSE max_turns)

\* C28 witness: a returned run that used its whole budget of MaxTurns turns
\* and the synthesis call
C28_Witness ==
    /\ rpc = "returned"
    /\ max_turns = MaxTurns
    /\ llm_calls - synth.calls = max_turns
    /\ synth.calls = 1
    /\ trajectory.saved
    /\ trajectory.total_turns = max_turns

\* Turns of the loop in which the model responded
RespondedTurns == { t \in 1..turn : ~(llm_failed.set /\ llm_failed.turn = t) }

\* C29: when run has returned, trajectory.turns holds one record for each
\* turn in which the model responded, with strictly increasing turn numbers,
\* followed by one synthesis record when the synthesis call succeeded; no turn
\* is recorded twice and at most one record is marked final.
C29_TurnRecords ==
    rpc = "returned" =>
        LET ts == trajectory.turns
            loop == SelectSeq(ts, LAMBDA r : ~r.synthesis)
        IN /\ \A i \in 1..(Len(ts) - 1) : ts[i].turn < ts[i + 1].turn
           /\ { loop[i].turn : i \in 1..Len(loop) } = RespondedTurns
           /\ Len(loop) = Cardinality(RespondedTurns)
           /\ Len(ts) - Len(loop) = (IF synth.ok THEN 1 ELSE 0)
           /\ \A i \in 1..(Len(ts) - 1) : ~ts[i].synthesis
           /\ Cardinality({ i \in 1..Len(ts) : ts[i].final }) <= 1

\* C30: a listed call whose name is not among the schemas given to the model
\* executes no implementation: its result is the `not found` text of the
\* name.
C30_OnlyExposedToolsRun ==
    \A k \in 1..Len(executed) : \A j \in 1..Len(calls) :
        (/\ calls[j].id = executed[k].id
         /\ \A i \in 1..Len(agent.tools) : agent.tools[i].name # calls[j].name)
        => executed[k].result = <<"Error: Tool '", calls[j].name, "' not found">>


====
